---- MODULE Spec2Model ----
(***************************************************************************)
(* OpenPulse: the batch pipeline of scripts/openpulse_etl.py (metric files *)
(* and event log -> canonical KPI table and evidence log) and of           *)
(* scripts/healthscore.py (canonical KPI table -> scores and statistics).  *)
(*                                                                         *)
(* Floats are modelled by exact rationals (records k/n/d), NaN and +-inf   *)
(* by their own kinds.  Strings that the code inspects character by        *)
(* character (JSON keys, month keys) are sequences of one-character        *)
(* strings; names that are only compared are plain strings.                *)
(***************************************************************************)
EXTENDS Integers, Sequences, FiniteSets, TLC

VARIABLES
    metrics_root,    \* the metrics directory tree: the set of its directories
    log,             \* the rows of the DuckDB view `log`
    kpi_parquet,     \* repo_month_kpi.parquet: a table, or NoFile
    evidence_jsonl,  \* repo_month_evidence.jsonl: sequence of records, or NoFile
    norm_stats,      \* health_norm_stats.json: column -> {min, max}, or NoFile
    written,         \* artifact files written so far by the ETL run
    etl_status,      \* outcome of the last openpulse_etl.py run
    hs_status,       \* outcome of the last healthscore.py run
    hs_read,         \* the table the last healthscore.py run read (its df)
    mm_in,           \* inputs of a safe_minmax application
    mm_out,          \* its sign-adjusted results
    pf_in,           \* the file handed to a parse_metric_file call
    pf_out,          \* what the call returned or raised
    repo_dirs,       \* what find_repo_dirs returned
    log_monthly_agg, \* log_monthly_agg.parquet: the log-view rows, or NoFile
    metrics_out       \* what a call of build_metrics_kpi gave, <<>> before it

vars == <<metrics_root, log, kpi_parquet, evidence_jsonl, norm_stats,
          written, etl_status, hs_status, hs_read, mm_in, mm_out,
          pf_in, pf_out, repo_dirs, log_monthly_agg, metrics_out>>

-----------------------------------------------------------------------------
(* Bounds of the model. *)

\* rows of a canonical table handed to HealthScorer
MaxRows == 2
\* largest raw value and statistic handed to safe_minmax
MaxVal == 3
\* rows of the event log of a run whose merge is examined
MaxMergeLogRows == 2
\* rows of the event log of a run whose evidence is examined
MaxEvidenceLogRows == 3
\* items of the JSON object a metric file holds
MaxItems == 3

-----------------------------------------------------------------------------
(* Floating-point values: rationals n/d in lowest terms, NaN, +-inf. *)

Abs(a) == IF a < 0 THEN -a ELSE a

RECURSIVE Gcd(_, _)
Gcd(a, b) == IF b = 0 THEN a ELSE Gcd(b, a % b)

Frac(n, d) ==
    LET g == Gcd(Abs(n), Abs(d))
        s == IF d < 0 THEN -1 ELSE 1
    IN  [k |-> "num", n |-> (s * n) \div g, d |-> (s * d) \div g]

Num(n) == [k |-> "num", n |-> n, d |-> 1]
NaN == [k |-> "nan", n |-> 0, d |-> 1]
Inf(sign) == [k |-> "inf", n |-> sign, d |-> 1]

IsNum(v) == v.k = "num"
isna(v) == v.k = "nan"

FAdd(a, b) == Frac(a.n * b.d + b.n * a.d, a.d * b.d)
FSub(a, b) == Frac(a.n * b.d - b.n * a.d, a.d * b.d)
FMul(a, b) == Frac(a.n * b.n, a.d * b.d)
FDiv(a, b) == Frac(a.n * b.d, a.d * b.n)
FLe(a, b) == a.n * b.d <= b.n * a.d
FLt(a, b) == a.n * b.d < b.n * a.d
FAbs(v) ==
    IF v.k = "num" THEN [v EXCEPT !.n = Abs(v.n)]
    ELSE IF v.k = "inf" THEN Inf(1) ELSE v

\* np.clip(y, lo, hi) and Series.clip(lo, hi) on a finite value
clip(y, lo, hi) == IF FLt(y, lo) THEN lo ELSE IF FLt(hi, y) THEN hi ELSE y

NoFile == [exists |-> FALSE]

\* month keys "2024-01" .. "2024-04", character by character
MonthKey(mm) == <<"2", "0", "2", "4", "-">> \o mm
M01 == MonthKey(<<"0", "1">>)
M02 == MonthKey(<<"0", "2">>)
M03 == MonthKey(<<"0", "3">>)
M04 == MonthKey(<<"0", "4">>)
ModelMonths == <<M01, M02, M03, M04>>

-----------------------------------------------------------------------------
(* Tables (pandas DataFrames): the key columns repo_name and month of every *)
(* row, and a value v[c] for each numeric column c of cols.                 *)

Table(cols, rows) == [exists |-> TRUE, cols |-> cols, rows |-> rows]

\* df[c] = F(row) for every row: the column is added or overwritten
WithCol(df, c, F(_)) ==
    [df EXCEPT
        !.cols = @ \cup {c},
        !.rows = [i \in 1..Len(df.rows) |->
                    [df.rows[i] EXCEPT
                        !.v = [x \in df.cols \cup {c} |->
                                 IF x = c THEN F(df.rows[i])
                                 ELSE df.rows[i].v[x]]]]]

RECURSIVE SeqSumF(_)
SeqSumF(s) == IF s = <<>> THEN Num(0) ELSE FAdd(Head(s), SeqSumF(Tail(s)))

-----------------------------------------------------------------------------
(* scripts/openpulse_etl.py: metric files *)

\* parsed JSON values
JNum(n) == [t |-> "num", n |-> n]
JNaN == [t |-> "nan"]
JInfinity == [t |-> "inf"]
JStr(s) == [t |-> "str", s |-> s]
JBool(b) == [t |-> "bool", b |-> b]
JNull == [t |-> "null"]
JArr == [t |-> "arr"]
\* an object: its items in document order, keys distinct
JObj(items) == [t |-> "obj", items |-> items]
Item(key, val) == [key |-> key, val |-> val]
\* file content that is not JSON
NotJson == [t |-> "invalid"]
\* an entry of a directory that is itself a directory
IsADirectory == [t |-> "dir"]

Digits == {"0", "1", "2", "3", "4", "5", "6", "7", "8", "9"}
DigitVal(c) ==
    CASE c = "0" -> 0 [] c = "1" -> 1 [] c = "2" -> 2 [] c = "3" -> 3
      [] c = "4" -> 4 [] c = "5" -> 5 [] c = "6" -> 6 [] c = "7" -> 7
      [] c = "8" -> 8 [] c = "9" -> 9

\* MONTH_RE.match(k) for ^\d{4}-\d{2}$ ($ also matches before a final newline)
MONTH_RE_match(k) ==
    /\ Len(k) = 7 \/ (Len(k) = 8 /\ k[8] = "\n")
    /\ \A i \in {1, 2, 3, 4, 6, 7} : k[i] \in Digits
    /\ k[5] = "-"

RECURSIVE DecimalValue(_)
DecimalValue(s) ==
    IF s = <<>> THEN 0
    ELSE 10 * DecimalValue(SubSeq(s, 1, Len(s) - 1)) + DigitVal(s[Len(s)])

Ok(val) == [err |-> "", val |-> val]
Raise(e) == [err |-> e, val |-> <<>>]

\* float(v): numbers as they are, strings of decimal digits parsed, other
\* strings a ValueError, null, arrays and objects a TypeError
float(v) ==
    CASE v.t = "num" -> Ok(Num(v.n))
      [] v.t = "nan" -> Ok(NaN)
      [] v.t = "inf" -> Ok(Inf(1))
      [] v.t = "bool" -> Ok(Num(IF v.b THEN 1 ELSE 0))
      [] v.t = "str" ->
            IF v.s # <<>> /\ \A i \in 1..Len(v.s) : v.s[i] \in Digits
            THEN Ok(Num(DecimalValue(v.s)))
            ELSE Raise("ValueError")
      [] OTHER -> Raise("TypeError")

\* obj.get(key, default) on the items of an object
HasKey(items, key) == \E i \in 1..Len(items) : items[i].key = key
GetKey(items, key, default) ==
    IF HasKey(items, key)
    THEN items[CHOOSE i \in 1..Len(items) : items[i].key = key].val
    ELSE default

\* a comprehension that leaves out the values float cannot convert
RECURSIVE MonthSeries_skipping(_)
MonthSeries_skipping(items) ==
    IF items = <<>> THEN Ok(<<>>)
    ELSE LET it == Head(items)
             rest == MonthSeries_skipping(Tail(items))
         IN  IF ~MONTH_RE_match(it.key) THEN rest
             ELSE IF float(it.val).err # "" THEN rest
             ELSE IF rest.err # "" THEN rest
             ELSE Ok(<<[month |-> it.key, val |-> float(it.val).val]>>
                        \o rest.val)

\* {m: float(v) for m, v in d.items() if MONTH_RE.match(m)}: the series in
\* document order, or the first error float raises
RECURSIVE MonthSeries(_)
MonthSeries(items) ==
    IF items = <<>> THEN Ok(<<>>)
    ELSE LET it == Head(items)
             rest == MonthSeries(Tail(items))
         IN  IF ~MONTH_RE_match(it.key) THEN rest
             ELSE IF float(it.val).err # "" THEN Raise(float(it.val).err)
             ELSE IF rest.err # "" THEN rest
             ELSE Ok(<<[month |-> it.key, val |-> float(it.val).val]>>
                        \o rest.val)

\* d.items() of a value that may not be a dict
MonthSeriesOf(v) ==
    IF v.t = "obj" THEN MonthSeries(v.items) ELSE Raise("AttributeError")

\* the "-raw" keys of stars.json, lines 91-96
EndsWithRaw(k) ==
    Len(k) >= 4 /\ SubSeq(k, Len(k) - 3, Len(k)) = <<"-", "r", "a", "w">>

RECURSIVE RawSeries(_)
RawSeries(items) ==
    IF items = <<>> THEN Ok(<<>>)
    ELSE LET it == Head(items)
             m == SubSeq(it.key, 1, Len(it.key) - 4)
             rest == RawSeries(Tail(items))
         IN  IF ~(EndsWithRaw(it.key) /\ MONTH_RE_match(m)) THEN rest
             ELSE IF float(it.val).err # "" THEN Raise(float(it.val).err)
             ELSE IF rest.err # "" THEN rest
             ELSE Ok(<<[month |-> m, val |-> float(it.val).val]>> \o rest.val)

\* two file names given the same key: openrank.json also feeds kpi_activity
METRICS_FILE_MAP_shared ==
    "participants.json" :> "kpi_active_contributors_month"
    @@ "new_contributors.json" :> "kpi_new_contributors_month"
    @@ "inactive_contributors.json" :> "kpi_inactive_contributors_month"
    @@ "bus_factor.json" :> "bus_factor"
    @@ "issues_new.json" :> "kpi_new_issues_month"
    @@ "issues_closed.json" :> "kpi_closed_issues_month"
    @@ "change_requests.json" :> "kpi_new_prs_month"
    @@ "change_requests_accepted.json" :> "kpi_merged_prs_month"
    @@ "activity.json" :> "kpi_activity"
    @@ "openrank.json" :> "kpi_activity"
    @@ "attention.json" :> "kpi_attention"
    @@ "technical_fork.json" :> "kpi_technical_fork"
    @@ "code_change_lines_sum.json" :> "kpi_code_change_lines_month"
    @@ "issue_response_time.json" :> "lat_issue_response"
    @@ "issue_resolution_duration.json" :> "lat_issue_resolution"
    @@ "change_request_response_time.json" :> "lat_pr_response"
    @@ "change_request_resolution_duration.json" :> "lat_pr_resolution"
    @@ "stars.json" :> "stars"

METRICS_FILE_MAP ==
    "participants.json" :> "kpi_active_contributors_month"
    @@ "new_contributors.json" :> "kpi_new_contributors_month"
    @@ "inactive_contributors.json" :> "kpi_inactive_contributors_month"
    @@ "bus_factor.json" :> "bus_factor"
    @@ "issues_new.json" :> "kpi_new_issues_month"
    @@ "issues_closed.json" :> "kpi_closed_issues_month"
    @@ "change_requests.json" :> "kpi_new_prs_month"
    @@ "change_requests_accepted.json" :> "kpi_merged_prs_month"
    @@ "activity.json" :> "kpi_activity"
    @@ "openrank.json" :> "kpi_openrank"
    @@ "attention.json" :> "kpi_attention"
    @@ "technical_fork.json" :> "kpi_technical_fork"
    @@ "code_change_lines_sum.json" :> "kpi_code_change_lines_month"
    @@ "issue_response_time.json" :> "lat_issue_response"
    @@ "issue_resolution_duration.json" :> "lat_issue_resolution"
    @@ "change_request_response_time.json" :> "lat_pr_response"
    @@ "change_request_resolution_duration.json" :> "lat_pr_resolution"
    @@ "stars.json" :> "stars"

\* key.startswith("lat_") over the keys of the table
startswith_lat(key) ==
    key \in {"lat_issue_response", "lat_issue_resolution",
             "lat_pr_response", "lat_pr_resolution"}

\* a directory entry: stem "." ext, and what the file holds
File(stem, ext, content) == [stem |-> stem, ext |-> ext, content |-> content]
FileName(f) == f.stem \o "." \o f.ext
endswith_json(f) == f.ext = "json"

\* detect_metrics_layout(obj)
FirstFive(items) == SubSeq(items, 1, IF Len(items) < 5 THEN Len(items) ELSE 5)
detect_metrics_layout(obj) ==
    IF obj.t = "obj"
    THEN IF HasKey(obj.items, <<"a", "v", "g">>)
            /\ GetKey(obj.items, <<"a", "v", "g">>, JNull).t = "obj"
         THEN "avg_quantile"
         ELSE IF \E i \in 1..Len(FirstFive(obj.items)) :
                    MONTH_RE_match(obj.items[i].key)
         THEN "series"
         ELSE "unknown"
    ELSE "unknown"

\* out[col] = series, kept as a list of entries in insertion order
Entry(col, series) == [col |-> col, series |-> series]

\* the fallback turned round: quantile_1 first, quantile_2 when it is absent
quantile_source_q1_first(obj) ==
    GetKey(obj.items, <<"q", "u", "a", "n", "t", "i", "l", "e", "_", "1">>,
           GetKey(obj.items,
                  <<"q", "u", "a", "n", "t", "i", "l", "e", "_", "2">>,
                  JObj(<<>>)))

\* obj.get("quantile_2", obj.get("quantile_1", {}))
quantile_source(obj) ==
    GetKey(obj.items, <<"q", "u", "a", "n", "t", "i", "l", "e", "_", "2">>,
           GetKey(obj.items,
                  <<"q", "u", "a", "n", "t", "i", "l", "e", "_", "1">>,
                  JObj(<<>>)))

\* parse_metric_file, lines 75-84: a latency file
ParseLatency(obj, layout, key) ==
    IF layout = "avg_quantile"
    THEN LET avg == GetKey(obj.items, <<"a", "v", "g">>, JObj(<<>>))
             q2 == quantile_source(obj)
             a == MonthSeriesOf(avg)
             m == MonthSeriesOf(q2)
         IN  IF a.err # "" THEN Raise(a.err)
             ELSE IF m.err # "" THEN Raise(m.err)
             ELSE Ok(<<Entry(key \o "_avg", a.val),
                       Entry(key \o "_median", m.val)>>)
    ELSE IF layout = "series"
    THEN LET a == MonthSeries(obj.items)
         IN  IF a.err # "" THEN Raise(a.err)
             ELSE Ok(<<Entry(key \o "_avg", a.val)>>)
    ELSE Ok(<<>>)

\* parse_metric_file, lines 87-99: stars.json holding an object
ParseStars(obj) ==
    LET delta == MonthSeries(obj.items)
        raw == RawSeries(obj.items)
    IN  IF delta.err # "" THEN Raise(delta.err)
        ELSE IF raw.err # "" THEN Raise(raw.err)
        ELSE Ok((IF delta.val # <<>>
                 THEN <<Entry("kpi_stars_delta_month", delta.val)>> ELSE <<>>)
                \o (IF raw.val # <<>>
                    THEN <<Entry("kpi_stars_total", raw.val)>> ELSE <<>>))

\* parse_metric_file, lines 102-106: any other metric
ParseGeneral(obj, layout, key) ==
    IF layout = "series"
    THEN LET a == MonthSeries(obj.items)
         IN  IF a.err # "" THEN Raise(a.err) ELSE Ok(<<Entry(key, a.val)>>)
    ELSE IF layout = "avg_quantile"
    THEN LET a == MonthSeriesOf(GetKey(obj.items, <<"a", "v", "g">>,
                                       JObj(<<>>)))
         IN  IF a.err # "" THEN Raise(a.err) ELSE Ok(<<Entry(key, a.val)>>)
    ELSE Ok(<<>>)

\* parse_metric_file(path): the columns of one file, or the exception raised
parse_metric_file(f) ==
    IF f.content.t = "dir" THEN Raise("IsADirectoryError")
    ELSE IF f.content.t = "invalid" THEN Raise("JSONDecodeError")
    ELSE LET obj == f.content
             layout == detect_metrics_layout(obj)
             fname == FileName(f)
         IN  IF fname \notin DOMAIN METRICS_FILE_MAP THEN Ok(<<>>)
             ELSE LET key == METRICS_FILE_MAP[fname]
                  IN  IF startswith_lat(key)
                      THEN ParseLatency(obj, layout, key)
                      ELSE IF fname = "stars.json" /\ obj.t = "obj"
                      THEN ParseStars(obj)
                      ELSE ParseGeneral(obj, layout, key)

-----------------------------------------------------------------------------
(* scripts/openpulse_etl.py: repository directories and the metrics table *)

\* a directory below the metrics root: its path parts and its entries (files,
\* and subdirectories as entries of content IsADirectory) in the order the
\* file system enumerates them
Dir(path, files) == [path |-> path, files |-> files]

\* the order of str on the directory names of the model
NameRank == "X" :> 1 @@ "Y" :> 2 @@ "a" :> 3 @@ "b" :> 4

RECURSIVE PathLt(_, _)
PathLt(p, q) ==
    IF p = <<>> THEN q # <<>>
    ELSE IF q = <<>> THEN FALSE
    ELSE IF Head(p) = Head(q) THEN PathLt(Tail(p), Tail(q))
    ELSE NameRank[Head(p)] < NameRank[Head(q)]

RECURSIVE SortDirs(_)
SortDirs(S) ==
    IF S = {} THEN <<>>
    ELSE LET m == CHOOSE d \in S : \A o \in S \ {d} : PathLt(d.path, o.path)
         IN  <<m>> \o SortDirs(S \ {m})

\* root_p.glob("*.json")
JsonFiles(d) == SelectSeq(d.files, endswith_json)

MinJsonFiles == 5

\* find_repo_dirs(metrics_root), lines 112-115: os.walk's `files` are the
\* entries that are no directories, glob("*.json") matches entries of any kind
IsRepoDir(d) ==
    /\ \E i \in 1..Len(d.files) :
          endswith_json(d.files[i]) /\ d.files[i].content.t # "dir"
    /\ Len(JsonFiles(d)) >= MinJsonFiles

find_repo_dirs(root) == SortDirs({d \in root : IsRepoDir(d)})

\* d.name
BaseName(path) == path[Len(path)]

\* the month's dictionary replaced by the new cell instead of extended by it
SetCell_overwrite(md, month, col, val) ==
    IF \E i \in 1..Len(md) : md[i].month = month
    THEN [i \in 1..Len(md) |->
            IF md[i].month = month
            THEN [md[i] EXCEPT !.kv = col :> val]
            ELSE md[i]]
    ELSE Append(md, [month |-> month, kv |-> col :> val])

\* month_dict.setdefault(month, {}); month_dict[month][col] = val
SetCell(md, month, col, val) ==
    IF \E i \in 1..Len(md) : md[i].month = month
    THEN [i \in 1..Len(md) |->
            IF md[i].month = month
            THEN [md[i] EXCEPT !.kv = (col :> val) @@ md[i].kv]
            ELSE md[i]]
    ELSE Append(md, [month |-> month, kv |-> col :> val])

RECURSIVE AddSeries(_, _, _)
AddSeries(md, col, series) ==
    IF series = <<>> THEN md
    ELSE AddSeries(SetCell(md, Head(series).month, col, Head(series).val),
                   col, Tail(series))

RECURSIVE AddParsed(_, _)
AddParsed(md, entries) ==
    IF entries = <<>> THEN md
    ELSE AddParsed(AddSeries(md, Head(entries).col, Head(entries).series),
                   Tail(entries))

\* build_metrics_kpi, lines 123-129: the month_dict of one directory
RECURSIVE DirMonths(_, _)
DirMonths(files, md) ==
    IF files = <<>> THEN Ok(md)
    ELSE LET parsed == parse_metric_file(Head(files))
         IN  IF parsed.err # "" THEN Raise(parsed.err)
             ELSE DirMonths(Tail(files), AddParsed(md, parsed.val))

\* build_metrics_kpi, lines 130-133: the rows of one directory
DirRows(d, md) ==
    [i \in 1..Len(md) |->
        [repo_name |-> BaseName(d.path), month |-> md[i].month,
         kv |-> md[i].kv]]

RECURSIVE MetricRows(_)
MetricRows(dirs) ==
    IF dirs = <<>> THEN Ok(<<>>)
    ELSE LET md == DirMonths(JsonFiles(Head(dirs)), <<>>)
             rest == MetricRows(Tail(dirs))
         IN  IF md.err # "" THEN Raise(md.err)
             ELSE IF rest.err # "" THEN rest
             ELSE Ok(DirRows(Head(dirs), md.val) \o rest.val)

\* pd.DataFrame(rows): the union of the rows' columns, NaN where a row has none
DataFrame(rows) ==
    LET cols == UNION {DOMAIN rows[i].kv : i \in 1..Len(rows)}
    IN  Table(cols,
              [i \in 1..Len(rows) |->
                  [repo_name |-> rows[i].repo_name, month |-> rows[i].month,
                   v |-> [c \in cols |->
                            IF c \in DOMAIN rows[i].kv THEN rows[i].kv[c]
                            ELSE NaN]]])

\* without the check of lines 135-137: an empty table instead of the error
build_metrics_kpi_unchecked(root) ==
    LET rows == MetricRows(find_repo_dirs(root))
    IN  IF rows.err # "" THEN Raise(rows.err)
        ELSE Ok(DataFrame(rows.val))

\* build_metrics_kpi(metrics_root): the metrics table, or the exception
build_metrics_kpi(root) ==
    LET rows == MetricRows(find_repo_dirs(root))
    IN  IF rows.err # "" THEN Raise(rows.err)
        ELSE IF rows.val = <<>> THEN Raise("RuntimeError")
        ELSE Ok(DataFrame(rows.val))

-----------------------------------------------------------------------------
(* scripts/openpulse_etl.py: the event log and its monthly aggregate *)

\* SQL values: NULL, integers, timestamps (seconds since 2024-01-01 00:00:00)
\* and text that is no timestamp; NULL of a string column is NullStr
SqlNull == [k |-> "null", n |-> 0]
SqlInt(n) == [k |-> "int", n |-> n]
Ts(n) == [k |-> "ts", n |-> n]
SqlText == [k |-> "text", n |-> 0]
NullStr == "<NULL>"

IsNull(v) == v.k = "null"
\* the default whatever the value is
COALESCE_default(v, default) == default

\* COALESCE(v, default)
COALESCE(v, default) == IF IsNull(v) THEN default ELSE v.n

\* try_cast(v AS TIMESTAMP)
try_cast_ts(v) == IF v.k = "ts" THEN v ELSE SqlNull

\* a row of the view `log` with every column NULL
BlankRow ==
    [repo_name |-> NullStr, created_at |-> SqlNull, type |-> NullStr,
     action |-> NullStr, push_distinct_size |-> SqlNull,
     pull_merged |-> SqlNull, pull_additions |-> SqlNull,
     pull_deletions |-> SqlNull, release_published_at |-> SqlNull,
     issue_id |-> SqlNull, issue_created_at |-> SqlNull,
     issue_comment_created_at |-> SqlNull,
     issue_comment_author_id |-> SqlNull, pull_merged_at |-> SqlNull]

\* the first second of 2024-01 .. 2024-04 and of 2024-05
MonthStarts == <<0, 2678400, 5184000, 7862400, 10454400>>

\* strftime(ts, '%Y-%m') for a timestamp of 2024-01 .. 2024-04
strftime_Ym(ts) ==
    ModelMonths[CHOOSE i \in 1..Len(ModelMonths) :
                    MonthStarts[i] <= ts.n /\ ts.n < MonthStarts[i + 1]]

RECURSIVE SumSeq(_)
SumSeq(s) == IF s = <<>> THEN 0 ELSE Head(s) + SumSeq(Tail(s))

\* SUM(F(row)) over the rows of a group
SumOver(rows, F(_)) == SumSeq([i \in 1..Len(rows) |-> F(rows[i])])

\* build_log_monthly_agg, lines 172-183: the CTE base
InBase(l) == l.repo_name # NullStr /\ ~IsNull(l.created_at)
BaseKey(l) == <<l.repo_name, strftime_Ym(l.created_at)>>

\* build_log_monthly_agg, lines 184-194: one row per (repo_name, month)
LogGroupRow(rows, key) ==
    LET g == SelectSeq(rows, LAMBDA l : InBase(l) /\ BaseKey(l) = key)
    IN  [repo_name |-> key[1], month |-> key[2],
         kv |->
           [kpi_commits_month_log |->
              Num(SumOver(g, LAMBDA l :
                    IF l.type = "Push" THEN COALESCE(l.push_distinct_size, 0)
                    ELSE 0)),
            kpi_new_issues_month_log |->
              Num(SumOver(g, LAMBDA l :
                    IF l.type = "Issues" /\ l.action = "opened" THEN 1 ELSE 0)),
            kpi_new_prs_month_log |->
              Num(SumOver(g, LAMBDA l :
                    IF l.type = "PullRequest" /\ l.action = "opened" THEN 1
                    ELSE 0)),
            kpi_release_count_month_log |->
              Num(SumOver(g, LAMBDA l :
                    IF l.type = "Release" /\ ~IsNull(l.release_published_at)
                    THEN 1 ELSE 0)),
            kpi_code_change_lines_month_log |->
              Num(SumOver(g, LAMBDA l :
                    IF l.type = "PullRequest" /\ COALESCE(l.pull_merged, 0) = 1
                    THEN COALESCE(l.pull_additions, 0)
                         + COALESCE(l.pull_deletions, 0)
                    ELSE 0))]]

\* read_csv_auto(header=True, sample_size=1000000, ignore_errors=true), lines
\* 384-393: the type of the view's created_at column.  A log shorter than the
\* sample is sniffed whole, and one value that is no timestamp leaves VARCHAR
\* as the only type every sampled value fits.
created_at_type(rows) ==
    IF \E i \in 1..Len(rows) : rows[i].created_at.k = "text"
    THEN "VARCHAR" ELSE "TIMESTAMP"

\* strftime(created_at, '%Y-%m'), line 175: strftime takes a DATE or a
\* TIMESTAMP; on a VARCHAR column the query does not bind and execute raises
log_monthly_agg_raises(rows) == created_at_type(rows) = "VARCHAR"

LogCols ==
    {"kpi_commits_month_log", "kpi_new_issues_month_log",
     "kpi_new_prs_month_log", "kpi_release_count_month_log",
     "kpi_code_change_lines_month_log"}

\* build_log_monthly_agg(con): the rows of the log-view table (the engine
\* returns them in no particular order)
build_log_monthly_agg(rows) ==
    {LogGroupRow(rows, key) :
        key \in {BaseKey(rows[i]) : i \in {j \in 1..Len(rows) : InBase(rows[j])}}}

-----------------------------------------------------------------------------
(* scripts/openpulse_etl.py: the merge *)

\* the order of str on month keys and on (repo_name, month)
CharCode(c) ==
    IF c \in Digits THEN 48 + DigitVal(c) ELSE IF c = "-" THEN 45 ELSE 10

RECURSIVE StrLt(_, _)
StrLt(a, b) ==
    IF a = <<>> THEN b # <<>>
    ELSE IF b = <<>> THEN FALSE
    ELSE IF Head(a) = Head(b) THEN StrLt(Tail(a), Tail(b))
    ELSE CharCode(Head(a)) < CharCode(Head(b))

KeyOf(r) == <<r.repo_name, r.month>>
KeyLt(k1, k2) ==
    IF k1[1] = k2[1] THEN StrLt(k1[2], k2[2])
    ELSE NameRank[k1[1]] < NameRank[k2[1]]

RECURSIVE SortKeys(_)
SortKeys(S) ==
    IF S = {} THEN <<>>
    ELSE LET m == CHOOSE k \in S : \A o \in S \ {k} : KeyLt(k, o)
         IN  <<m>> \o SortKeys(S \ {m})

\* the rows of the outer join for one key: every metrics row of the key joined
\* with the log row of the key, NaN where a side has no row
JoinKey(left, right, key) ==
    LET L == SelectSeq(left.rows, LAMBDA r : KeyOf(r) = key)
        R == {r \in right : KeyOf(r) = key}
        rv(c) == IF R = {} THEN NaN ELSE (CHOOSE r \in R : TRUE).kv[c]
        cols == left.cols \cup LogCols
    IN  IF L = <<>>
        THEN <<[repo_name |-> key[1], month |-> key[2],
                v |-> [c \in cols |-> IF c \in LogCols THEN rv(c) ELSE NaN]]>>
        ELSE [i \in 1..Len(L) |->
                [L[i] EXCEPT
                    !.v = [c \in cols |->
                             IF c \in LogCols THEN rv(c) ELSE L[i].v[c]]]]

RECURSIVE JoinKeys(_, _, _)
JoinKeys(left, right, keys) ==
    IF keys = <<>> THEN <<>>
    ELSE JoinKey(left, right, Head(keys)) \o JoinKeys(left, right, Tail(keys))

\* pd.merge(metrics_out, log_monthly_df, on=["repo_name", "month"], how="outer")
merge_outer(left, right) ==
    Table(left.cols \cup LogCols,
          JoinKeys(left, right,
                   SortKeys({KeyOf(left.rows[i]) : i \in 1..Len(left.rows)}
                            \cup {KeyOf(r) : r \in right})))

\* coalesce with the sources swapped: the log value wins when it is there
coalesce_log_first(a, b) == IF ~isna(b) THEN b ELSE a

\* coalesce(a, b) = a.where(~a.isna(), b), for one row
coalesce(a, b) == IF ~isna(a) THEN a ELSE b

CoalesceCol(df, c) ==
    WithCol(df, c, LAMBDA r : coalesce(r.v[c], r.v[c \o "_log"]))

\* main, lines 410-415
CoalesceIfBoth(df, c) ==
    IF c \in df.cols /\ (c \o "_log") \in df.cols THEN CoalesceCol(df, c)
    ELSE df

\* main, lines 418-426
CoalesceOrCopy(df, c) ==
    IF c \notin df.cols THEN WithCol(df, c, LAMBDA r : r.v[c \o "_log"])
    ELSE CoalesceCol(df, c)

\* main, lines 404-426: the canonical KPI table, each assignment to kpi
\* made on the frame the one before it left
merge_kpi(metrics_df, log_monthly) ==
    CHOOSE kpi \in
      {CoalesceOrCopy(kpi4, "kpi_release_count_month") : kpi4 \in
      {CoalesceOrCopy(kpi3, "kpi_commits_month") : kpi3 \in
      {CoalesceIfBoth(kpi2, "kpi_code_change_lines_month") : kpi2 \in
      {CoalesceIfBoth(kpi1, "kpi_new_prs_month") : kpi1 \in
      {CoalesceIfBoth(kpi0, "kpi_new_issues_month") : kpi0 \in
      {merge_outer(metrics_df, log_monthly)}}}}}} : TRUE

-----------------------------------------------------------------------------
(* scripts/openpulse_etl.py: evidence of the latest month.  The descriptive *)
(* columns carried along by any_value (issue_number, issue_title,           *)
(* change_lines) are left out of the records.                               *)

RowsOf(rows, P(_)) == {rows[i] : i \in {j \in 1..Len(rows) : P(rows[j])}}

\* lines 212-219: the rows that take part in the latest month of their repo
HasMonth(l) == l.repo_name # NullStr /\ ~IsNull(try_cast_ts(l.created_at))
MonthOfRow(l) == strftime_Ym(try_cast_ts(l.created_at))

\* min(...) instead of max(...): the earliest month of the repository
latest_month_earliest(rows, repo) ==
    LET ms == {MonthOfRow(l) :
                 l \in RowsOf(rows, LAMBDA l : HasMonth(l) /\ l.repo_name = repo)}
    IN  CHOOSE m \in ms : \A o \in ms \ {m} : StrLt(m, o)

\* lines 212-219: max(strftime(...)) per repo_name
latest_month(rows, repo) ==
    LET ms == {MonthOfRow(l) :
                 l \in RowsOf(rows, LAMBDA l : HasMonth(l) /\ l.repo_name = repo)}
    IN  CHOOSE m \in ms : \A o \in ms \ {m} : StrLt(o, m)

\* JOIN latest_tbl t ON l.repo_name = t.repo_name AND strftime(...) = t.latest_month
InLatest(rows, l) ==
    HasMonth(l) /\ MonthOfRow(l) = latest_month(rows, l.repo_name)

MinTs(S) == CHOOSE t \in S : \A o \in S : t <= o
MaxTs(S) == CHOOSE t \in S : \A o \in S : o <= t

\* date_diff with its two timestamps swapped
date_diff_minute_swapped(a, b) == (a \div 60) - (b \div 60)

\* date_diff('minute', a, b): the minute boundaries between two timestamps
date_diff_minute(a, b) == (b \div 60) - (a \div 60)

\* the WHERE clause dropped: every pair is kept
NotBefore_dropped(a, b) == TRUE

\* lines 271 and 312: WHERE b >= a
NotBefore(a, b) == b >= a

\* lines 227-243: issue_base, one row per (repo_name, issue_id)
IssueBaseRow(l) ==
    /\ ~IsNull(l.issue_id)
    /\ ~IsNull(try_cast_ts(l.issue_created_at))

\* lines 244-258: first_comment, one row per (repo_name, issue_id)
FirstCommentRow(l) ==
    /\ l.type = "IssueComment"
    /\ ~IsNull(l.issue_id)
    /\ ~IsNull(try_cast_ts(l.issue_comment_created_at))
    /\ ~IsNull(l.issue_comment_author_id)

\* lines 226-273 without the ORDER BY: the rows of issue_evd
issue_evd(rows) ==
    LET base == RowsOf(rows, LAMBDA l : InLatest(rows, l) /\ IssueBaseRow(l))
        cmts == RowsOf(rows, LAMBDA l : InLatest(rows, l) /\ FirstCommentRow(l))
        keys == {<<l.repo_name, l.issue_id.n>> : l \in base}
                    \cap {<<l.repo_name, l.issue_id.n>> : l \in cmts}
        created(k) ==
            MinTs({l.issue_created_at.n :
                     l \in {b \in base : <<b.repo_name, b.issue_id.n>> = k}})
        first(k) ==
            MinTs({l.issue_comment_created_at.n :
                     l \in {c \in cmts : <<c.repo_name, c.issue_id.n>> = k}})
    IN  {[evidence_type |-> "issue_slow_response",
          repo_name |-> k[1],
          month |-> latest_month(rows, k[1]),
          issue_id |-> k[2],
          issue_created_at |-> created(k),
          first_comment_at |-> first(k),
          response_hours |->
              Frac(date_diff_minute(created(k), first(k)), 60)] :
            k \in {x \in keys : NotBefore(created(x), first(x))}}

\* lines 279-300: pr_base, one row per (repo_name, issue_id)
PrBaseRow(l) ==
    /\ l.type = "PullRequest"
    /\ ~IsNull(l.issue_id)
    /\ ~IsNull(try_cast_ts(l.issue_created_at))
    /\ COALESCE(l.pull_merged, 0) = 1
    /\ ~IsNull(try_cast_ts(l.pull_merged_at))

\* lines 278-314 without the ORDER BY: the rows of pr_evd
pr_evd(rows) ==
    LET base == RowsOf(rows, LAMBDA l : InLatest(rows, l) /\ PrBaseRow(l))
        keys == {<<l.repo_name, l.issue_id.n>> : l \in base}
        group(k) == {b \in base : <<b.repo_name, b.issue_id.n>> = k}
        created(k) == MinTs({l.issue_created_at.n : l \in group(k)})
        merged(k) == MaxTs({l.pull_merged_at.n : l \in group(k)})
    IN  {[evidence_type |-> "pr_slow_merge",
          repo_name |-> k[1],
          month |-> latest_month(rows, k[1]),
          issue_id |-> k[2],
          pr_created_at |-> created(k),
          pr_merged_at |-> merged(k),
          merge_hours |-> Frac(date_diff_minute(created(k), merged(k)), 60)] :
            k \in {x \in keys : NotBefore(created(x), merged(x))}}

\* the duration of an evidence record
Hours(e) ==
    IF e.evidence_type = "issue_slow_response" THEN e.response_hours
    ELSE e.merge_hours

\* ORDER BY ... ASC instead of DESC
RECURSIVE OrderByAsc(_)
OrderByAsc(S) ==
    IF S = {} THEN {<<>>}
    ELSE UNION {{<<m>> \o t : t \in OrderByAsc(S \ {m})} :
                   m \in {e \in S : \A o \in S : FLe(Hours(e), Hours(o))}}

\* ORDER BY response_hours DESC / merge_hours DESC: every order of the rows
\* the engine may return, rows of equal duration in any order
RECURSIVE OrderByDesc(_)
OrderByDesc(S) ==
    IF S = {} THEN {<<>>}
    ELSE UNION {{<<m>> \o t : t \in OrderByDesc(S \ {m})} :
                   m \in {e \in S : \A o \in S : FLe(Hours(o), Hours(e))}}

topk == 5

\* the last k rows of a group instead of the first
Head_k_tail(s, k) == SubSeq(s, IF Len(s) < k THEN 1 ELSE Len(s) - k + 1, Len(s))

\* g.head(k)
Head_k(s, k) == SubSeq(s, 1, IF Len(s) < k THEN Len(s) ELSE k)

RECURSIVE SortNames(_)
SortNames(S) ==
    IF S = {} THEN <<>>
    ELSE LET m == CHOOSE a \in S : \A o \in S \ {a} : NameRank[a] < NameRank[o]
         IN  <<m>> \o SortNames(S \ {m})

\* lines 322-323 and 338-339: for repo, g in evd.groupby("repo_name"):
\* g.head(topk), the groups in the order of their names
RECURSIVE GroupHeads(_, _)
GroupHeads(evd, repos) ==
    IF repos = <<>> THEN <<>>
    ELSE Head_k(SelectSeq(evd, LAMBDA e : e.repo_name = Head(repos)), topk)
            \o GroupHeads(evd, Tail(repos))

WriteStream(evd) ==
    GroupHeads(evd, SortNames({evd[i].repo_name : i \in 1..Len(evd)}))

\* build_evidence_latest_month: every content the evidence file may get
build_evidence_latest_month(rows) ==
    {WriteStream(i) \o WriteStream(p) :
        i \in OrderByDesc(issue_evd(rows)), p \in OrderByDesc(pr_evd(rows))}

-----------------------------------------------------------------------------
(* scripts/openpulse_etl.py: main *)

\* main(): metrics table, log aggregate, merge, canonical table, evidence.
\* An exception of build_metrics_kpi ends the run before any artifact is
\* written, an exception of build_log_monthly_agg after repo_meta.parquet was
\* written; artifacts of an earlier run stay as they are.
ETLMain ==
    /\ \E skip_evidence \in BOOLEAN :
       \E m \in {build_metrics_kpi(metrics_root)} :
          IF m.err # ""
          THEN /\ etl_status' = m.err
               /\ written' = {}
               /\ UNCHANGED <<kpi_parquet, evidence_jsonl, log_monthly_agg>>
          ELSE IF log_monthly_agg_raises(log)
          THEN /\ etl_status' = "duckdb.Error"
               /\ written' = {"repo_meta.parquet"}
               /\ UNCHANGED <<kpi_parquet, evidence_jsonl, log_monthly_agg>>
          ELSE /\ etl_status' = "ok"
               /\ \E metrics_df \in {m.val} :
                  \E log_monthly_df \in {build_log_monthly_agg(log)} :
                     /\ log_monthly_agg' =
                           [exists |-> TRUE, rows |-> log_monthly_df]
                     /\ kpi_parquet' = merge_kpi(metrics_df, log_monthly_df)
               /\ IF skip_evidence
                  THEN /\ UNCHANGED evidence_jsonl
                       /\ written' = {"repo_meta.parquet",
                                      "log_monthly_agg.parquet",
                                      "repo_month_kpi.parquet"}
                  ELSE /\ \E lines \in build_evidence_latest_month(log) :
                             evidence_jsonl' =
                                 [exists |-> TRUE, lines |-> lines]
                       /\ written' = {"repo_meta.parquet",
                                      "log_monthly_agg.parquet",
                                      "repo_month_kpi.parquet",
                                      "repo_month_evidence.jsonl"}
    /\ UNCHANGED <<metrics_root, log, norm_stats, hs_status, hs_read,
                   mm_in, mm_out, pf_in, pf_out, repo_dirs, metrics_out>>

-----------------------------------------------------------------------------
(* scripts/healthscore.py *)

POS == "pos"
NEG == "neg"

DIMS == <<"A", "R", "C", "T", "S">>

DIM_WEIGHTS ==
    [A |-> Frac(25, 100), R |-> Frac(25, 100), C |-> Frac(20, 100),
     T |-> Frac(10, 100), S |-> Frac(20, 100)]

DIM_DEF ==
    [A |-> << <<"kpi_activity", POS>>,
              <<"kpi_new_issues_month", POS>>,
              <<"kpi_new_prs_month", POS>>,
              <<"kpi_active_contributors_month", POS>> >>,
     R |-> << <<"lat_issue_response_median", NEG>>,
              <<"lat_issue_resolution_median", NEG>>,
              <<"lat_pr_response_median", NEG>>,
              <<"lat_pr_resolution_median", NEG>> >>,
     C |-> << <<"kpi_active_contributors_month", POS>>,
              <<"kpi_new_contributors_month", POS>>,
              <<"kpi_inactive_contributors_month", NEG>>,
              <<"bus_factor", POS>> >>,
     T |-> << <<"kpi_stars_delta_month", POS>>,
              <<"kpi_technical_fork", POS>>,
              <<"kpi_attention", POS>> >>,
     S |-> << <<"kpi_openrank", POS>>,
              <<"kpi_release_count_month", POS>>,
              <<"kpi_code_change_lines_month_abs", POS>> >>]

ScoreCol(dim) == "score_" \o dim

\* safe_minmax(x, vmin, vmax)
safe_minmax(x, vmin, vmax) ==
    IF isna(x) THEN Frac(1, 2)
    ELSE IF FLe(vmax, vmin) THEN Frac(1, 2)
    ELSE clip(FDiv(FSub(x, vmin), FSub(vmax, vmin)), Num(0), Num(1))

\* the sign adjustment with the 1.0 forgotten: v = -v
SignAdjust_negated(v, sign) == IF sign = NEG THEN FSub(Num(0), v) ELSE v

\* the sign adjustment applied to no metric
SignAdjust_ignored(v, sign) == v

\* the sign adjustment of compute_scores: v = 1.0 - v for a NEG metric
SignAdjust(v, sign) == IF sign = NEG THEN FSub(Num(1), v) ELSE v

\* the metric columns the dimensions refer to (main's all_cols)
DimCols(dim) == {DIM_DEF[dim][i][1] : i \in 1..Len(DIM_DEF[dim])}
all_cols ==
    UNION {DimCols(DIMS[i]) : i \in 1..Len(DIMS)}
        \cup {"kpi_code_change_lines_month_abs"}

\* df.replace([np.inf, -np.inf], np.nan)
ReplaceInf(df) ==
    [df EXCEPT
        !.rows = [i \in 1..Len(df.rows) |->
                    [df.rows[i] EXCEPT
                        !.v = [x \in df.cols |->
                                 IF df.rows[i].v[x].k = "inf" THEN NaN
                                 ELSE df.rows[i].v[x]]]]]

FMinOf(S) == CHOOSE m \in S : \A o \in S : FLe(m, o)
FMaxOf(S) == CHOOSE m \in S : \A o \in S : FLe(o, m)

\* compute_stats(df, cols): min and max of the finite values of each column
FiniteValues(df, c) ==
    {df.rows[i].v[c] : i \in {j \in 1..Len(df.rows) : IsNum(df.rows[j].v[c])}}

compute_stats(df, cols) ==
    [c \in cols |->
        IF FiniteValues(df, c) = {} THEN [min |-> Num(0), max |-> Num(1)]
        ELSE [min |-> FMinOf(FiniteValues(df, c)),
              max |-> FMaxOf(FiniteValues(df, c))]]

\* compute_scores, lines 65-72: the derived columns
WithDerived(df) ==
    LET d1 == IF "kpi_code_change_lines_month" \in df.cols
              THEN WithCol(df, "kpi_code_change_lines_month_abs",
                           LAMBDA r : FAbs(r.v["kpi_code_change_lines_month"]))
              ELSE WithCol(df, "kpi_code_change_lines_month_abs",
                           LAMBDA r : NaN)
    IN  IF "kpi_release_count_month" \notin d1.cols
           /\ "kpi_release_count_month_log" \in d1.cols
        THEN WithCol(d1, "kpi_release_count_month",
                     LAMBDA r : r.v["kpi_release_count_month_log"])
        ELSE d1

\* compute_scores, lines 80-87: one metric's contribution to a row's
\* dimension score (stats[col] is read only when the column is present)
Contribution(df, stats, row, col, sign) ==
    SignAdjust(IF col \notin df.cols THEN Frac(1, 2)
               ELSE safe_minmax(row.v[col], stats[col].min, stats[col].max),
               sign)

\* compute_scores, lines 75-89: acc += w * v over the items of a dimension
DimScore(df, stats, row, dim) ==
    LET items == DIM_DEF[dim]
        w == Frac(1, Len(items))
    IN  SeqSumF([i \in 1..Len(items) |->
                    FMul(w, Contribution(df, stats, row,
                                         items[i][1], items[i][2]))])

\* stats[col] raises KeyError: a column of the table that stats does not hold
\* is looked up for the first row
StatsKeyError(df, stats) ==
    /\ Len(df.rows) > 0
    /\ \E i \in 1..Len(DIMS) : \E c \in DimCols(DIMS[i]) :
          c \in df.cols /\ c \notin DOMAIN stats

RECURSIVE WithDimScores(_, _, _)
WithDimScores(df, stats, k) ==
    IF k = 0 THEN df
    ELSE LET prev == WithDimScores(df, stats, k - 1)
         IN  WithCol(prev, ScoreCol(DIMS[k]),
                     LAMBDA r : DimScore(prev, stats, r, DIMS[k]))

\* the five dimensions weighted equally
HealthH_equal(r) ==
    SeqSumF([i \in 1..Len(DIMS) |->
                FMul(Frac(1, 5), r.v[ScoreCol(DIMS[i])])])

\* health_H, lines 92-98
HealthH(r) ==
    SeqSumF([i \in 1..Len(DIMS) |->
                FMul(DIM_WEIGHTS[DIMS[i]], r.v[ScoreCol(DIMS[i])])])

\* compute_scores(df, stats): the scored table, or the KeyError
compute_scores(df, stats) ==
    LET d2 == WithDerived(df)
    IN  IF StatsKeyError(d2, stats) THEN [err |-> "KeyError", df |-> d2]
        ELSE LET d3 == WithDimScores(d2, stats, Len(DIMS))
                 d4 == WithCol(d3, "health_H", HealthH)
                 d5 == WithCol(d4, "health_score",
                               LAMBDA r : clip(FMul(Num(100), r.v["health_H"]),
                                               Num(0), Num(100)))
             IN  [err |-> "", df |-> d5]

\* main, lines 105-124: what the run computes from the table it reads
hs_stats_df(df0) ==
    LET d0 == ReplaceInf(df0)
    IN  IF "kpi_code_change_lines_month" \in d0.cols
        THEN WithCol(d0, "kpi_code_change_lines_month_abs",
                     LAMBDA r : FAbs(r.v["kpi_code_change_lines_month"]))
        ELSE d0

hs_stats(df0) ==
    LET df == hs_stats_df(df0)
    IN  compute_stats(df, {c \in all_cols : c \in df.cols})

hs_scored(df0) == compute_scores(hs_stats_df(df0), hs_stats(df0))

\* healthscore.py main(): reads the canonical table, writes it back with the
\* scores and writes the statistics; an exception leaves both files as they were
HealthScoreMain ==
    /\ kpi_parquet.exists
    /\ hs_read' = kpi_parquet
    /\ LET r == hs_scored(kpi_parquet)
       IN  IF r.err # ""
           THEN /\ hs_status' = r.err
                /\ UNCHANGED <<kpi_parquet, norm_stats>>
           ELSE /\ hs_status' = "ok"
                /\ kpi_parquet' = r.df
                /\ norm_stats' = [exists |-> TRUE, stats |-> hs_stats(kpi_parquet)]
    /\ UNCHANGED <<metrics_root, log, evidence_jsonl, written, etl_status,
                   mm_in, mm_out, pf_in, pf_out,
                   repo_dirs, log_monthly_agg, metrics_out>>

-----------------------------------------------------------------------------
(* ETL runs on bounded metrics trees and event logs. *)

Hour == 60 * 60
Feb == MonthStarts[2]
Mar == MonthStarts[3]

\* series files: {"2024-01": 5, "2024-02": 7} and the like
SeriesFile(stem, items) == File(stem, "json", JObj(items))

ActivityFile ==
    SeriesFile("activity", <<Item(M01, JNum(5)), Item(M02, JNum(7))>>)
NewPrsFile == SeriesFile("change_requests", <<Item(M01, JNum(10))>>)
NewPrsNaNFile == SeriesFile("change_requests", <<Item(M01, JNaN)>>)
NewIssuesFile == SeriesFile("issues_new", <<Item(M02, JNum(4))>>)
CodeLinesFile == SeriesFile("code_change_lines_sum", <<Item(M01, JNum(-3))>>)

\* four .json files whose names the table does not hold
Fillers ==
    <<File("meta1", "json", JObj(<<>>)), File("meta2", "json", JObj(<<>>)),
      File("meta3", "json", JObj(<<>>)), File("meta4", "json", JObj(<<>>))>>

\* what a directory of the tree may hold: too few .json files to be a
\* repository bundle, or four fillers and one or two metric files
MergeBundles ==
    {<<ActivityFile, File("README", "md", NotJson)>>,
     Fillers \o <<ActivityFile>>,
     Fillers \o <<NewPrsFile, NewIssuesFile>>,
     Fillers \o <<NewPrsNaNFile, CodeLinesFile>>}

\* the directories of the tree: two of them have the same base name
MergeDirPaths == {<<"X">>, <<"a", "X">>, <<"Y">>}

\* the rows an event log is made of
LogRow(repo, created_at, type, action) ==
    [BlankRow EXCEPT !.repo_name = repo, !.created_at = created_at,
                     !.type = type, !.action = action]

MergeLogRows ==
    <<[LogRow("X", Ts(Hour), "Push", NullStr)
          EXCEPT !.push_distinct_size = SqlInt(3)],
      LogRow("X", Ts(2 * Hour), "PullRequest", "opened"),
      LogRow("X", Ts(Mar + Hour), "PullRequest", "opened"),
      [LogRow("X", Ts(3 * Hour), "PullRequest", "closed")
          EXCEPT !.pull_merged = SqlInt(1), !.pull_additions = SqlInt(2),
                 !.pull_deletions = SqlInt(1)],
      LogRow("Y", Ts(Feb + Hour), "Issues", "opened"),
      [LogRow("Y", Ts(Feb + 2 * Hour), "Release", "published")
          EXCEPT !.release_published_at = Ts(Feb + 2 * Hour)],
      LogRow(NullStr, Ts(Hour), "Push", NullStr)>>

\* the logs of at most n rows drawn from cand, one order of each selection
LogsFrom(cand, n) ==
    {[i \in 1..k |-> cand[idx[i]]] :
        k \in 0..n,
        idx \in {f \in [1..n -> 1..Len(cand)] :
                    \A i \in 1..n - 1 : f[i] <= f[i + 1]}}

InitMerge ==
    /\ kpi_parquet = NoFile
    /\ evidence_jsonl = NoFile
    /\ norm_stats = NoFile
    /\ written = {}
    /\ etl_status = "idle"
    /\ hs_status = "idle"
    /\ hs_read = NoFile
    /\ mm_in = <<>>
    /\ mm_out = <<>>
    /\ pf_in = <<>>
    /\ pf_out = <<>>
    /\ repo_dirs = <<>>
    /\ log_monthly_agg = NoFile
    /\ metrics_out = <<>>
    /\ \E present \in SUBSET MergeDirPaths :
       \E holds \in [present -> MergeBundles] :
          metrics_root = {Dir(p, holds[p]) : p \in present}
    /\ log \in LogsFrom(MergeLogRows, MaxMergeLogRows)

NextMerge == ETLMain

SpecMerge == InitMerge /\ [][NextMerge]_vars

\* the concepts held under a metrics-derived name and a _log counterpart
SharedConcepts ==
    {"kpi_new_issues_month", "kpi_new_prs_month",
     "kpi_code_change_lines_month", "kpi_commits_month",
     "kpi_release_count_month"}

\* the frame right after pd.merge (line 404), before any coalescing: row i of
\* it becomes row i of the canonical table
Joined ==
    merge_outer(build_metrics_kpi(metrics_root).val,
                build_log_monthly_agg(log))

KpiRows == 1..Len(kpi_parquet.rows)

\* the metrics-derived value of concept c in row i of the joined frame J: NaN
\* when no metric file supplied the column
MetricsValue(J, i, c) ==
    IF c \in J.cols THEN J.rows[i].v[c] ELSE NaN
LogValue(J, i, c) == J.rows[i].v[c \o "_log"]

\* C1: in every merged row, a shared concept whose metrics-derived value is
\* non-null keeps that value, whatever the log-derived value is.
C1_MetricsPrecedence ==
    etl_status = "ok" =>
        LET J == Joined IN
        \A i \in KpiRows : \A c \in SharedConcepts :
            ~isna(MetricsValue(J, i, c)) =>
                /\ c \in kpi_parquet.cols
                /\ kpi_parquet.rows[i].v[c] = MetricsValue(J, i, c)

\* a merged row where the metrics say 10 new PRs and the log says 1
C1_Witness ==
    /\ etl_status = "ok"
    /\ LET J == Joined IN
       \E i \in KpiRows :
          /\ MetricsValue(J, i, "kpi_new_prs_month") = Num(10)
          /\ LogValue(J, i, "kpi_new_prs_month") = Num(1)
          /\ kpi_parquet.rows[i].v["kpi_new_prs_month"] = Num(10)

\* C2: in every merged row, a shared concept whose metrics-derived value is
\* null, or whose column no metric file supplied, holds the log-derived value
\* under the metrics-derived name.
C2_LogFallback ==
    etl_status = "ok" =>
        LET J == Joined IN
        \A i \in KpiRows : \A c \in SharedConcepts :
            isna(MetricsValue(J, i, c)) =>
                /\ c \in kpi_parquet.cols
                /\ kpi_parquet.rows[i].v[c] = LogValue(J, i, c)

\* C3: every (repo_name, month) occurs in at most one row of the canonical
\* table.
C3_KeyUnique ==
    etl_status = "ok" =>
        \A i, j \in KpiRows :
            KeyOf(kpi_parquet.rows[i]) = KeyOf(kpi_parquet.rows[j]) => i = j

-----------------------------------------------------------------------------
(* The ETL on event logs of issue comments and merged pull requests. *)

CommentRow(repo, id, created, commented) ==
    [LogRow(repo, Ts(commented), "IssueComment", "created")
        EXCEPT !.issue_id = SqlInt(id), !.issue_created_at = Ts(created),
               !.issue_comment_created_at = Ts(commented),
               !.issue_comment_author_id = SqlInt(1)]

MergedPrRow(repo, id, created, merged) ==
    [LogRow(repo, Ts(merged), "PullRequest", "closed")
        EXCEPT !.issue_id = SqlInt(id), !.issue_created_at = Ts(created),
               !.pull_merged = SqlInt(1), !.pull_merged_at = Ts(merged)]

\* an hour into February
T0 == Feb + Hour

EvidenceLogRows ==
    <<CommentRow("X", 1, T0, T0 + 2 * Hour),
      CommentRow("X", 2, T0, T0 + 2 * Hour),
      CommentRow("X", 3, T0, T0 + 5 * Hour),
      CommentRow("X", 4, T0, T0),
      CommentRow("X", 5, T0 + Hour, T0),
      CommentRow("X", 6, T0, T0 + 30),
      CommentRow("X", 1, T0, T0 + Hour),
      CommentRow("Y", 1, T0, T0 + Hour),
      CommentRow("X", 8, Hour, 5 * Hour),
      MergedPrRow("X", 9, T0, T0 + 3 * Hour),
      MergedPrRow("X", 10, T0, T0 + 3 * Hour),
      MergedPrRow("X", 11, T0 + Hour, T0),
      MergedPrRow("X", 12, T0, T0)>>

InitEvidence ==
    /\ kpi_parquet = NoFile
    /\ evidence_jsonl = NoFile
    /\ norm_stats = NoFile
    /\ written = {}
    /\ etl_status = "idle"
    /\ hs_status = "idle"
    /\ hs_read = NoFile
    /\ mm_in = <<>>
    /\ mm_out = <<>>
    /\ pf_in = <<>>
    /\ pf_out = <<>>
    /\ repo_dirs = <<>>
    /\ log_monthly_agg = NoFile
    /\ metrics_out = <<>>
    /\ metrics_root = {Dir(<<"X">>, Fillers \o <<ActivityFile>>)}
    /\ log \in LogsFrom(EvidenceLogRows, MaxEvidenceLogRows)

NextEvidence == ETLMain

SpecEvidence == InitEvidence /\ [][NextEvidence]_vars

EvidenceWritten == etl_status = "ok" /\ evidence_jsonl.exists

\* the records of the evidence file, and those of one repository and stream
Emitted == evidence_jsonl.lines
EmittedSet == {Emitted[i] : i \in 1..Len(Emitted)}
StreamOf(repo, type) ==
    SelectSeq(Emitted,
              LAMBDA e : e.repo_name = repo /\ e.evidence_type = type)
Streams == {"issue_slow_response", "pr_slow_merge"}
Repos == {"X", "Y"}

\* the two timestamps a record's duration is measured between
StartOf(e) ==
    IF e.evidence_type = "issue_slow_response" THEN e.issue_created_at
    ELSE e.pr_created_at
EndOf(e) ==
    IF e.evidence_type = "issue_slow_response" THEN e.first_comment_at
    ELSE e.pr_merged_at

\* C8: every emitted record has a duration >= 0, the duration being the
\* minute difference of its two timestamps divided by 60.
C8_DurationsNonNegative ==
    EvidenceWritten =>
        \A e \in EmittedSet :
            /\ Hours(e) = Frac(date_diff_minute(StartOf(e), EndOf(e)), 60)
            /\ FLe(Num(0), Hours(e))

\* an issue record of 2 hours and a pull-request record of 3 hours, written
\* from a log that also holds a comment made before the issue was created
C8_Witness ==
    /\ EvidenceWritten
    /\ \E e \in EmittedSet :
          e.evidence_type = "issue_slow_response" /\ Hours(e) = Num(2)
    /\ \E e \in EmittedSet :
          e.evidence_type = "pr_slow_merge" /\ Hours(e) = Num(3)
    /\ \E i \in 1..Len(log) :
          /\ log[i].type = "IssueComment"
          /\ log[i].issue_comment_created_at.n < log[i].issue_created_at.n

\* C9: the records of one repository and one stream appear in strictly
\* descending order of duration.
C9_StrictlyDescending ==
    EvidenceWritten =>
        \A repo \in Repos : \A type \in Streams :
            LET s == StreamOf(repo, type)
            IN  \A i \in 1..Len(s) - 1 : FLt(Hours(s[i + 1]), Hours(s[i]))

\* C9, as the code has it: the records of one repository and one stream
\* appear in non-increasing order of duration; records of equal duration
\* follow one another.
C9_NonIncreasing ==
    EvidenceWritten =>
        \A repo \in Repos : \A type \in Streams :
            LET s == StreamOf(repo, type)
            IN  \A i \in 1..Len(s) - 1 : FLe(Hours(s[i + 1]), Hours(s[i]))

\* a stream of three issue records, 5 hours first and then two of 2 hours
C9_Witness ==
    /\ EvidenceWritten
    /\ LET s == StreamOf("X", "issue_slow_response")
       IN  /\ Len(s) = 3
           /\ Hours(s[1]) = Num(5)
           /\ Hours(s[2]) = Num(2)
           /\ Hours(s[3]) = Num(2)

-----------------------------------------------------------------------------
(* HealthScorer runs on a canonical table found on disk. *)

\* the metric columns an input table may hold: one POS metric, one NEG
\* metric, the source of the derived absolute column, the release count and
\* its _log counterpart, and a metric of a three-item dimension
ScoreInputCols ==
    {"kpi_activity", "lat_issue_response_median",
     "kpi_code_change_lines_month", "kpi_release_count_month",
     "kpi_release_count_month_log", "kpi_stars_delta_month"}

\* an input table holds at most one of them besides
\* kpi_code_change_lines_month
ScoreColSets ==
    {base \cup extra :
        base \in SUBSET {"kpi_code_change_lines_month"},
        extra \in {{}} \cup {{c} : c \in ScoreInputCols}}

ScoreInputValues == {NaN, Inf(1), Num(-1), Num(2)}

InitScore ==
    /\ metrics_root = {}
    /\ log = <<>>
    /\ evidence_jsonl = NoFile
    /\ norm_stats = NoFile
    /\ written = {}
    /\ etl_status = "idle"
    /\ hs_status = "idle"
    /\ hs_read = NoFile
    /\ mm_in = <<>>
    /\ mm_out = <<>>
    /\ pf_in = <<>>
    /\ pf_out = <<>>
    /\ repo_dirs = <<>>
    /\ log_monthly_agg = NoFile
    /\ metrics_out = <<>>
    /\ \E cols \in ScoreColSets :
       \E n \in 1..MaxRows :
       \E cells \in [1..n -> [cols -> ScoreInputValues]] :
          kpi_parquet =
              Table(cols, [i \in 1..n |->
                             [repo_name |-> "X", month |-> ModelMonths[i],
                              v |-> cells[i]]])

NextScore == HealthScoreMain

SpecScore == InitScore /\ [][NextScore]_vars

\* the scores of row i of the table on disk
RowScore(i, c) == kpi_parquet.rows[i].v[c]
ScoredRows == 1..Len(kpi_parquet.rows)
InUnit(v) == FLe(Num(0), v) /\ FLe(v, Num(1))

\* C4: after a completed HealthScorer run every row has
\* 0 <= health_score <= 100 and every dimension score in [0, 1].
C4_ScoreRange ==
    hs_status = "ok" =>
        \A i \in ScoredRows :
            /\ FLe(Num(0), RowScore(i, "health_score"))
            /\ FLe(RowScore(i, "health_score"), Num(100))
            /\ \A k \in 1..Len(DIMS) : InUnit(RowScore(i, ScoreCol(DIMS[k])))

\* a completed run whose table has a row scored below 50 and a row scored
\* above 50: normalisation and sign adjustment acted on real values
C4_Witness ==
    /\ hs_status = "ok"
    /\ \E i, j \in ScoredRows :
          /\ FLt(RowScore(i, "health_score"), Num(50))
          /\ FLt(Num(50), RowScore(j, "health_score"))

\* the metrics that contribute to the dimensions, the derived absolute column
\* standing for its source column
ContributingCols ==
    (all_cols \ {"kpi_code_change_lines_month_abs"})
        \cup {"kpi_code_change_lines_month"}

\* every contributing metric of row i of df is missing: column absent, or NaN
AllMissing(df, i) ==
    \A c \in ContributingCols : c \notin df.cols \/ isna(df.rows[i].v[c])

\* C5: a row whose contributing metrics are all missing (column absent from
\* the table, or NaN in the row) gets every dimension score 0.5 and
\* health_score exactly 50.
C5_NeutralScore ==
    hs_status # "idle" =>
        \A i \in 1..Len(hs_read.rows) :
            AllMissing(hs_read, i) =>
                /\ hs_status = "ok"
                /\ \A k \in 1..Len(DIMS) :
                      RowScore(i, ScoreCol(DIMS[k])) = Frac(1, 2)
                /\ RowScore(i, "health_score") = Num(50)

\* the part of C5 the code keeps: when the run completes, such a row is
\* scored 0.5 in every dimension and 50 overall
C5_NeutralWhenCompleted ==
    hs_status = "ok" =>
        \A i \in 1..Len(hs_read.rows) :
            AllMissing(hs_read, i) =>
                /\ \A k \in 1..Len(DIMS) :
                      RowScore(i, ScoreCol(DIMS[k])) = Frac(1, 2)
                /\ RowScore(i, "health_score") = Num(50)

\* a metric is absent from the table read: its column is not there (for the
\* derived absolute column: its source column is not there)
MetricAbsent(df, c) ==
    IF c = "kpi_code_change_lines_month_abs"
    THEN "kpi_code_change_lines_month" \notin df.cols
    ELSE c \notin df.cols

\* C6: whatever metric columns are absent from the table, the HealthScorer
\* run completes without error, and a dimension all of whose metrics are
\* absent is scored 0.5 in every row.
C6_MissingColumnsNeverFail ==
    hs_status # "idle" =>
        /\ hs_status = "ok"
        /\ \A i \in ScoredRows : \A k \in 1..Len(DIMS) :
              (\A c \in DimCols(DIMS[k]) : MetricAbsent(hs_read, c))
                  => RowScore(i, ScoreCol(DIMS[k])) = Frac(1, 2)

-----------------------------------------------------------------------------
(* safe_minmax and the sign adjustment applied to two raw values under the *)
(* same statistics.                                                        *)

RawValues == {NaN} \cup {Num(n) : n \in -1..MaxVal + 1}
StatValues == {Num(n) : n \in 0..MaxVal}

InitMinMax ==
    /\ metrics_root = {}
    /\ log = <<>>
    /\ kpi_parquet = NoFile
    /\ evidence_jsonl = NoFile
    /\ norm_stats = NoFile
    /\ written = {}
    /\ etl_status = "idle"
    /\ hs_status = "idle"
    /\ hs_read = NoFile
    /\ mm_out = <<>>
    /\ pf_in = <<>>
    /\ pf_out = <<>>
    /\ repo_dirs = <<>>
    /\ log_monthly_agg = NoFile
    /\ metrics_out = <<>>
    /\ mm_in \in [x : RawValues, x2 : RawValues,
                  vmin : StatValues, vmax : StatValues, sign : {POS, NEG}]

\* compute_scores, lines 84-86, for one metric and two rows
ApplySafeMinMax ==
    /\ mm_in # <<>>
    /\ mm_out' =
         [c |-> SignAdjust(safe_minmax(mm_in.x, mm_in.vmin, mm_in.vmax),
                           mm_in.sign),
          c2 |-> SignAdjust(safe_minmax(mm_in.x2, mm_in.vmin, mm_in.vmax),
                            mm_in.sign)]
    /\ UNCHANGED <<metrics_root, log, kpi_parquet, evidence_jsonl, norm_stats,
                   written, etl_status, hs_status, hs_read, mm_in, pf_in, pf_out,
                   repo_dirs, log_monthly_agg, metrics_out>>

NextMinMax == ApplySafeMinMax

SpecMinMax == InitMinMax /\ [][NextMinMax]_vars

\* C7: under the same statistics, for raw values x <= x2 of a NEG metric the
\* sign-adjusted contribution of x2 is at most that of x.
C7_NegMonotone ==
    (/\ mm_out # <<>>
     /\ mm_in.sign = NEG
     /\ IsNum(mm_in.x) /\ IsNum(mm_in.x2)
     /\ FLe(mm_in.x, mm_in.x2))
        => FLe(mm_out.c2, mm_out.c)

\* a latency of 1 doubled to 2 under statistics {min 0, max 3}: the
\* contribution drops from 2/3 to 1/3
C7_Witness ==
    /\ mm_out # <<>>
    /\ mm_in = [x |-> Num(1), x2 |-> Num(2), vmin |-> Num(0),
                vmax |-> Num(3), sign |-> NEG]
    /\ mm_out.c = Frac(2, 3)
    /\ mm_out.c2 = Frac(1, 3)

-----------------------------------------------------------------------------
(* parse_metric_file applied to one metric file, and the ETL run on a tree *)
(* that holds the file.                                                    *)

KeyAvg == <<"a", "v", "g">>
KeyQ1 == <<"q", "u", "a", "n", "t", "i", "l", "e", "_", "1">>
KeyQ2 == <<"q", "u", "a", "n", "t", "i", "l", "e", "_", "2">>
KeyFoo == <<"f", "o", "o">>
RawKey(m) == m \o <<"-", "r", "a", "w">>
\* "2024-01\n": a month followed by a newline
M01nl == M01 \o <<"\n">>

\* the items a metric file is made of
ParseItems ==
    <<Item(M01, JNum(5)),
      Item(M02, JNum(7)),
      Item(M02, JStr(<<"x">>)),
      Item(M01nl, JNum(4)),
      Item(RawKey(M01), JNum(9)),
      Item(RawKey(M02), JNull),
      Item(KeyFoo, JStr(<<"x">>)),
      Item(KeyAvg, JObj(<<Item(M01, JNum(10))>>)),
      Item(KeyAvg, JObj(<<Item(M01, JNum(10)), Item(M02, JStr(<<"x">>))>>)),
      Item(KeyAvg, JNum(1)),
      Item(KeyQ2, JObj(<<Item(M01, JNum(6))>>)),
      Item(KeyQ2, JArr),
      Item(KeyQ1, JObj(<<Item(M01, JNum(3)), Item(M02, JNum(2))>>)),
      Item(KeyQ1, JObj(<<Item(M01, JNull)>>))>>

\* the objects of at most n items, keys distinct, in the order of ParseItems
ObjectsOf(n) ==
    {JObj([i \in 1..k |-> ParseItems[idx[i]]]) :
        k \in 0..n,
        idx \in {f \in [1..n -> 1..Len(ParseItems)] :
                    /\ \A i \in 1..n - 1 : f[i] <= f[i + 1]
                    /\ \A i, j \in 1..n :
                          i < j /\ ParseItems[f[i]].key = ParseItems[f[j]].key
                              => f[i] = f[j]}}

\* an object whose only month key is its sixth key
SixKeys ==
    JObj(<<Item(<<"k", "1">>, JNum(1)), Item(<<"k", "2">>, JNum(1)),
           Item(<<"k", "3">>, JNum(1)), Item(<<"k", "4">>, JNum(1)),
           Item(<<"k", "5">>, JNum(1)), Item(M01, JNum(5))>>)

ParseContents == ObjectsOf(MaxItems) \cup {SixKeys, NotJson, JArr, JNum(1)}

\* a general metric, a latency metric, the stars file and a file whose name
\* is not in METRICS_FILE_MAP
ParseStems == {"activity", "issue_response_time", "stars", "notes"}

ParseFiles == {File(st, "json", c) : st \in ParseStems, c \in ParseContents}

\* the files of a bundle that holds f, activity.json beside it
BesideActivity(f) ==
    IF f.stem = "activity" THEN <<f>> ELSE <<ActivityFile, f>>

\* the trees a run may find the file in: no directory at all, a directory of
\* fewer than five files, and directories of four, five and six files
ParseTrees(f) ==
    {{},
     {Dir(<<"X">>, BesideActivity(f))},
     {Dir(<<"X">>, Fillers \o <<f>>)},
     {Dir(<<"X">>, SubSeq(Fillers, 1, 3) \o BesideActivity(f))},
     {Dir(<<"X">>, Fillers \o BesideActivity(f))}}

InitParse ==
    /\ log = <<>>
    /\ kpi_parquet = NoFile
    /\ evidence_jsonl = NoFile
    /\ norm_stats = NoFile
    /\ written = {}
    /\ etl_status = "idle"
    /\ hs_status = "idle"
    /\ hs_read = NoFile
    /\ mm_in = <<>>
    /\ mm_out = <<>>
    /\ pf_out = <<>>
    /\ repo_dirs = <<>>
    /\ log_monthly_agg = NoFile
    /\ metrics_out = <<>>
    /\ pf_in \in ParseFiles
    /\ metrics_root \in ParseTrees(pf_in)

\* parsed = parse_metric_file(jf)
ParseMetricFile ==
    /\ pf_in # <<>>
    /\ pf_out' = parse_metric_file(pf_in)
    /\ UNCHANGED <<metrics_root, log, kpi_parquet, evidence_jsonl, norm_stats,
                   written, etl_status, hs_status, hs_read, mm_in, mm_out,
                   pf_in, repo_dirs, log_monthly_agg, metrics_out>>

NextParse == ParseMetricFile \/ ETLMain

SpecParse == InitParse /\ [][NextParse]_vars

\* the call returned (it did not raise)
Parsed == pf_out # <<>> /\ pf_out.err = ""
ParseRaised == pf_out # <<>> /\ pf_out.err # ""

\* a string of the form YYYY-MM: four digits, a dash, two digits
IsYearMonth(k) ==
    /\ Len(k) = 7
    /\ \A i \in {1, 2, 3, 4, 6, 7} : k[i] \in Digits
    /\ k[5] = "-"

\* the entries of the returned columns, as <<column, month, value>>
ReturnedEntries ==
    UNION {{<<pf_out.val[i].col, pf_out.val[i].series[j].month,
              pf_out.val[i].series[j].val>> :
               j \in 1..Len(pf_out.val[i].series)} :
           i \in 1..Len(pf_out.val)}

\* C11: every month key of every returned series, and every month of every
\* row of the canonical table, is of the form YYYY-MM.
C11_MonthKeys ==
    /\ Parsed => \A e \in ReturnedEntries : IsYearMonth(e[2])
    /\ etl_status = "ok" =>
          \A i \in KpiRows : IsYearMonth(kpi_parquet.rows[i].month)

\* the value an object holds under a key, an empty object when it has none
ValueUnder(obj, key) ==
    IF \E i \in 1..Len(obj.items) : obj.items[i].key = key
    THEN obj.items[CHOOSE i \in 1..Len(obj.items) : obj.items[i].key = key].val
    ELSE JObj(<<>>)
Holds(obj, key) == \E i \in 1..Len(obj.items) : obj.items[i].key = key

\* the file is a latency file in avg_quantile layout
LatencyAvgQuantile ==
    /\ pf_in.stem = "issue_response_time"
    /\ pf_in.content.t = "obj"
    /\ Holds(pf_in.content, KeyAvg)
    /\ ValueUnder(pf_in.content, KeyAvg).t = "obj"

\* series holds the values of src: each of its entries is an item of src under
\* the same key, and every YYYY-MM item of src is one of its entries
ValuesOf(series, src) ==
    /\ src.t = "obj"
    /\ \A j \in 1..Len(series) : \E i \in 1..Len(src.items) :
          /\ src.items[i].key = series[j].month
          /\ float(src.items[i].val).val = series[j].val
    /\ \A i \in 1..Len(src.items) :
          IsYearMonth(src.items[i].key) =>
              \E j \in 1..Len(series) :
                  /\ series[j].month = src.items[i].key
                  /\ series[j].val = float(src.items[i].val).val

\* the returned series of a column; empty when the column was not returned
SeriesOf(col) ==
    IF \E i \in 1..Len(pf_out.val) : pf_out.val[i].col = col
    THEN pf_out.val[CHOOSE i \in 1..Len(pf_out.val) :
                        pf_out.val[i].col = col].series
    ELSE <<>>
ReturnedCols == {pf_out.val[i].col : i \in 1..Len(pf_out.val)}

InputItems ==
    IF pf_in.content.t = "obj"
    THEN {<<pf_in.content.items[i].key, pf_in.content.items[i].val>> :
              i \in 1..Len(pf_in.content.items)}
    ELSE {}
PlainMonthItems == {it \in InputItems : IsYearMonth(it[1])}
RawMonthItems ==
    {it \in InputItems :
         /\ Len(it[1]) > 4
         /\ SubSeq(it[1], Len(it[1]) - 3, Len(it[1])) = <<"-", "r", "a", "w">>
         /\ IsYearMonth(SubSeq(it[1], 1, Len(it[1]) - 4))}
SeriesEntries(col) ==
    {<<SeriesOf(col)[j].month, SeriesOf(col)[j].val>> :
         j \in 1..Len(SeriesOf(col))}

\* C13: for a stars file holding plain-month keys and -raw month keys, the
\* delta column holds exactly the values of the plain-month keys and the total
\* column exactly the values of the -raw keys under the month without its
\* suffix; nothing else is in either column.
C13_StarsPartition ==
    (/\ Parsed
     /\ pf_in.stem = "stars"
     /\ PlainMonthItems # {}
     /\ RawMonthItems # {}) =>
        /\ SeriesEntries("kpi_stars_delta_month") =
              {<<it[1], float(it[2]).val>> : it \in PlainMonthItems}
        /\ SeriesEntries("kpi_stars_total") =
              {<<SubSeq(it[1], 1, Len(it[1]) - 4), float(it[2]).val>> :
                   it \in RawMonthItems}

\* issue_response_time.json = {"avg": {"2024-01": 10}, "quantile_2": {"2024-01": 6}}
ScenarioLatencyFile ==
    File("issue_response_time", "json",
         JObj(<<Item(KeyAvg, JObj(<<Item(M01, JNum(10))>>)),
                Item(KeyQ2, JObj(<<Item(M01, JNum(6))>>))>>))

\* the value of column c in row i of the canonical table: NaN when the table
\* has no such column
KpiValue(i, c) ==
    IF c \in kpi_parquet.cols THEN kpi_parquet.rows[i].v[c] ELSE NaN

\* the canonical table has the rows (X, 2024-01) with activity 5, average 10
\* and median 6, and (X, 2024-02) with activity 7 and no latency value
ScenarioTable ==
    /\ etl_status = "ok"
    /\ kpi_parquet.exists
    /\ \E i \in KpiRows :
          /\ kpi_parquet.rows[i].repo_name = "X"
          /\ kpi_parquet.rows[i].month = M01
          /\ KpiValue(i, "kpi_activity") = Num(5)
          /\ KpiValue(i, "lat_issue_response_avg") = Num(10)
          /\ KpiValue(i, "lat_issue_response_median") = Num(6)
    /\ \E i \in KpiRows :
          /\ kpi_parquet.rows[i].repo_name = "X"
          /\ kpi_parquet.rows[i].month = M02
          /\ KpiValue(i, "kpi_activity") = Num(7)
          /\ isna(KpiValue(i, "lat_issue_response_avg"))
          /\ isna(KpiValue(i, "lat_issue_response_median"))
    /\ Len(kpi_parquet.rows) = 2

ScenarioRan ==
    /\ pf_in = ScenarioLatencyFile
    /\ log = <<>>
    /\ etl_status # "idle"

Unrecognised == FileName(pf_in) \notin DOMAIN METRICS_FILE_MAP

\* the tree holds the file in a discovered bundle, activity.json beside it
InDiscoveredBundle ==
    \E d \in metrics_root :
        /\ Len(JsonFiles(d)) >= MinJsonFiles
        /\ \E i, j \in 1..Len(d.files) :
              d.files[i] = pf_in /\ d.files[j] = ActivityFile

\* C15: for a file whose name is not in the lookup table, whatever it holds,
\* parse_metric_file returns an empty result, and a run over a bundle that
\* holds it completes.
C15_UnrecognisedIgnored ==
    Unrecognised =>
        /\ pf_out # <<>> => Parsed /\ pf_out.val = <<>>
        /\ (InDiscoveredBundle /\ etl_status # "idle") => etl_status = "ok"

\* C16: for a file of a recognised name whose decoded value layout detection
\* classifies as unknown, parse_metric_file returns an empty result.
C16_UnknownLayoutEmpty ==
    (/\ pf_out # <<>>
     /\ ~Unrecognised
     /\ pf_in.content.t # "invalid"
     /\ detect_metrics_layout(pf_in.content) = "unknown") =>
        Parsed /\ pf_out.val = <<>>

\* a JSON value that is no number: null, a list, an object, the text "x"
NonNumeric(v) == v.t \in {"null", "arr", "obj"} \/ v = JStr(<<"x">>)

ItemsOfValue(v) ==
    IF v.t = "obj"
    THEN {<<v.items[i].key, v.items[i].val>> : i \in 1..Len(v.items)}
    ELSE {}

\* the items the file's columns are taken from, by kind of file and layout
EmittedFrom ==
    LET c == pf_in.content
    IN  IF pf_in.stem = "stars" \/ detect_metrics_layout(c) = "series"
        THEN InputItems
        ELSE IF pf_in.stem = "issue_response_time"
        THEN ItemsOfValue(ValueUnder(c, KeyAvg))
                 \cup ItemsOfValue(IF Holds(c, KeyQ2) THEN ValueUnder(c, KeyQ2)
                                   ELSE ValueUnder(c, KeyQ1))
        ELSE ItemsOfValue(ValueUnder(c, KeyAvg))

\* the month-keyed items that would be emitted and hold no number
BadItems ==
    {it \in EmittedFrom : IsYearMonth(it[1]) /\ NonNumeric(it[2])}
        \cup (IF pf_in.stem = "stars"
              THEN {it \in RawMonthItems : NonNumeric(it[2])} ELSE {})

RecognisedLayout ==
    /\ pf_in.content.t = "obj"
    /\ detect_metrics_layout(pf_in.content) \in {"series", "avg_quantile"}

\* the tree holds the file in a directory of at least five .json files
HeldInBundle ==
    \E d \in metrics_root :
        /\ Len(JsonFiles(d)) >= MinJsonFiles
        /\ \E i \in 1..Len(d.files) : d.files[i] = pf_in

\* C17: for a file of a recognised name and layout with a month-keyed value
\* that would be emitted and is no number, parse_metric_file raises, and a
\* run over a bundle that holds the file ends with an error and writes no
\* table: the value is never dropped with the file's other values kept.
C17_NonNumericFatal ==
    (~Unrecognised /\ RecognisedLayout /\ BadItems # {}) =>
        /\ pf_out # <<>> => ParseRaised
        /\ (HeldInBundle /\ etl_status # "idle") =>
              /\ etl_status \in {"ValueError", "TypeError", "AttributeError"}
              /\ ~kpi_parquet.exists
              /\ written = {}

\* activity.json = {"2024-01": 5, "2024-02": "x"} in a bundle: the parse
\* raised ValueError and so did the run
C17_Witness ==
    /\ pf_in = File("activity", "json",
                    JObj(<<Item(M01, JNum(5)), Item(M02, JStr(<<"x">>))>>))
    /\ ParseRaised
    /\ pf_out.err = "ValueError"
    /\ HeldInBundle
    /\ etl_status = "ValueError"
    /\ ~kpi_parquet.exists

\* no directory of the tree holds five .json files
NoneDiscovered == \A d \in metrics_root : Len(JsonFiles(d)) < MinJsonFiles

\* every file of the discovered directories was parsed and none gave a row
ZeroRows == MetricRows(find_repo_dirs(metrics_root)) = Ok(<<>>)

\* C18: when no repository directory is discovered, or the discovered ones
\* yield no row, the run ends with the "No metrics parsed" RuntimeError and
\* has written no artifact: no repository metadata, no log aggregate, no
\* canonical table, no evidence log.
C18_NoMetricsAbort ==
    (etl_status # "idle" /\ (NoneDiscovered \/ ZeroRows)) =>
        /\ etl_status = "RuntimeError"
        /\ written = {}
        /\ ~kpi_parquet.exists
        /\ ~evidence_jsonl.exists

\* a discovered bundle of five files none of which gave a row: the run ended
\* with the RuntimeError
C18_Witness ==
    /\ ~NoneDiscovered
    /\ ZeroRows
    /\ etl_status = "RuntimeError"
    /\ written = {}

-----------------------------------------------------------------------------
(* Logs with created_at values that are no timestamps *)

\* rows whose created_at is text that is no timestamp, beside rows of the
\* same repositories and months with timestamps: pushes with and without a
\* size, opened, merged and unmerged pull requests, releases with and without
\* a publication time, rows without repo_name or created_at
TimestampLogRows ==
    <<[LogRow("X", Ts(Hour), "Push", NullStr)
          EXCEPT !.push_distinct_size = SqlInt(3)],
      LogRow("X", Ts(2 * Hour), "PullRequest", "opened"),
      LogRow("Y", Ts(Feb + Hour), "Issues", "opened"),
      [LogRow("X", SqlText, "Push", NullStr)
          EXCEPT !.push_distinct_size = SqlInt(2)],
      LogRow("Y", SqlText, "Issues", "opened"),
      LogRow(NullStr, SqlText, "Push", NullStr),
      LogRow("X", SqlNull, "PullRequest", "opened"),
      LogRow("X", Ts(3 * Hour), "Push", NullStr),
      [LogRow("X", Ts(4 * Hour), "PullRequest", "closed")
          EXCEPT !.pull_merged = SqlInt(1), !.pull_additions = SqlInt(2)],
      [LogRow("X", Ts(5 * Hour), "PullRequest", "closed")
          EXCEPT !.pull_additions = SqlInt(2), !.pull_deletions = SqlInt(1)],
      [LogRow("Y", Ts(Feb + 2 * Hour), "Release", "published")
          EXCEPT !.release_published_at = Ts(Feb + 2 * Hour)],
      LogRow("Y", Ts(Feb + 3 * Hour), "Release", "published"),
      LogRow(NullStr, Ts(Hour), "Push", NullStr)>>

TimestampTrees ==
    {{},
     {Dir(<<"X">>, Fillers \o <<ActivityFile>>)},
     {Dir(<<"X">>, Fillers \o <<NewPrsFile, NewIssuesFile>>)},
     {Dir(<<"X">>, Fillers \o <<ActivityFile>>),
      Dir(<<"Y">>, Fillers \o <<NewPrsFile, NewIssuesFile>>)}}

InitTimestamps ==
    /\ kpi_parquet = NoFile
    /\ evidence_jsonl = NoFile
    /\ norm_stats = NoFile
    /\ written = {}
    /\ etl_status = "idle"
    /\ hs_status = "idle"
    /\ hs_read = NoFile
    /\ mm_in = <<>>
    /\ mm_out = <<>>
    /\ pf_in = <<>>
    /\ pf_out = <<>>
    /\ repo_dirs = <<>>
    /\ log_monthly_agg = NoFile
    /\ metrics_out = <<>>
    /\ metrics_root \in TimestampTrees
    /\ log \in LogsFrom(TimestampLogRows, MaxMergeLogRows)

NextTimestamps == ETLMain

SpecTimestamps == InitTimestamps /\ [][NextTimestamps]_vars

\* the log has a row whose created_at cannot be parsed as a timestamp
Unparseable(l) == l.created_at.k = "text"
HasUnparseable == \E i \in 1..Len(log) : Unparseable(log[i])

\* the log without its offending rows
ParseableLog == SelectSeq(log, LAMBDA l : ~Unparseable(l))

\* C19: a log row whose created_at cannot be parsed does not make the
\* monthly aggregation fail, and the canonical table is the one the run
\* computes from the log without the offending rows.
C19_UnparseableTolerated ==
    (/\ etl_status # "idle"
     /\ HasUnparseable
     /\ build_metrics_kpi(metrics_root).err = "") =>
        /\ etl_status = "ok"
        /\ kpi_parquet =
              merge_kpi(build_metrics_kpi(metrics_root).val,
                        build_log_monthly_agg(ParseableLog))

-----------------------------------------------------------------------------
(* Logs with more qualifying records of a repository than topk *)

\* five answered issues and five merged pull requests of X in February, with
\* durations of 1 to 5 hours
TopKBaseRows ==
    <<CommentRow("X", 1, T0, T0 + Hour),
      CommentRow("X", 2, T0, T0 + 2 * Hour),
      CommentRow("X", 3, T0, T0 + 3 * Hour),
      CommentRow("X", 4, T0, T0 + 4 * Hour),
      CommentRow("X", 5, T0, T0 + 5 * Hour),
      MergedPrRow("X", 11, T0, T0 + Hour),
      MergedPrRow("X", 12, T0, T0 + 2 * Hour),
      MergedPrRow("X", 13, T0, T0 + 3 * Hour),
      MergedPrRow("X", 14, T0, T0 + 4 * Hour),
      MergedPrRow("X", 15, T0, T0 + 5 * Hour)>>

\* further rows: longer, equal, zero and negative durations, another
\* repository, a later month
TopKExtraRows ==
    <<CommentRow("X", 6, T0, T0 + 6 * Hour),
      CommentRow("X", 7, T0, T0 + 3 * Hour),
      CommentRow("X", 8, T0, T0),
      CommentRow("X", 9, T0 + Hour, T0),
      CommentRow("Y", 1, T0, T0 + 2 * Hour),
      MergedPrRow("X", 16, T0, T0 + 6 * Hour),
      MergedPrRow("X", 17, T0, T0 + 30 * 60),
      MergedPrRow("Y", 2, T0, T0 + Hour),
      CommentRow("X", 20, Mar + Hour, Mar + 2 * Hour)>>

InitTopK ==
    /\ kpi_parquet = NoFile
    /\ evidence_jsonl = NoFile
    /\ norm_stats = NoFile
    /\ written = {}
    /\ etl_status = "idle"
    /\ hs_status = "idle"
    /\ hs_read = NoFile
    /\ mm_in = <<>>
    /\ mm_out = <<>>
    /\ pf_in = <<>>
    /\ pf_out = <<>>
    /\ repo_dirs = <<>>
    /\ log_monthly_agg = NoFile
    /\ metrics_out = <<>>
    /\ metrics_root = {Dir(<<"X">>, Fillers \o <<ActivityFile>>)}
    /\ \E extra \in LogsFrom(TopKExtraRows, MaxEvidenceLogRows) :
          log = TopKBaseRows \o extra

NextTopK == ETLMain

SpecTopK == InitTopK /\ [][NextTopK]_vars

\* the qualifying pairs of a repository and a stream
Qualifying(repo, type) ==
    {e \in (IF type = "issue_slow_response" THEN issue_evd(log)
            ELSE pr_evd(log)) : e.repo_name = repo}

Min(a, b) == IF a < b THEN a ELSE b

\* C20: for each repository and stream the evidence file holds min(5, n)
\* records, n the number of qualifying pairs, each of them a qualifying pair
\* written once, and no omitted qualifying pair has a longer duration than an
\* emitted one.
C20_TopK ==
    EvidenceWritten =>
        \A repo \in Repos : \A type \in Streams :
            \E Q \in {Qualifying(repo, type)} :
            \E s \in {StreamOf(repo, type)} :
            \E E \in {{s[i] : i \in 1..Len(s)}} :
                /\ Len(s) = Min(topk, Cardinality(Q))
                /\ Cardinality(E) = Len(s)
                /\ E \subseteq Q
                /\ \A o \in Q \ E : \A e \in E : FLe(Hours(o), Hours(e))

\* seven answered issues of X: five records were written, the issue answered
\* after 6 hours among them, the issues answered after 1 and 2 hours left out
C20_Witness ==
    /\ EvidenceWritten
    /\ Cardinality(Qualifying("X", "issue_slow_response")) = 7
    /\ Len(StreamOf("X", "issue_slow_response")) = 5
    /\ \E i \in 1..Len(Emitted) :
          Emitted[i].evidence_type = "issue_slow_response"
              /\ Emitted[i].issue_id = 6
    /\ \A i \in 1..Len(Emitted) :
          Emitted[i].evidence_type = "issue_slow_response"
              => Emitted[i].issue_id \notin {1, 2}

-----------------------------------------------------------------------------
(* Discovery of repository bundles *)

\* subdirectories whose names end in .json
JsonNamedDirs ==
    <<File("d1", "json", IsADirectory), File("d2", "json", IsADirectory),
      File("d3", "json", IsADirectory), File("d4", "json", IsADirectory),
      File("d5", "json", IsADirectory)>>

\* what a directory may hold: four, five and six .json files, four .json
\* files and a file of another extension, one .json file beside four
\* subdirectories named *.json, five such subdirectories and no file
DiscoverBundles ==
    {Fillers,
     Fillers \o <<ActivityFile>>,
     Fillers \o <<ActivityFile, NewPrsFile>>,
     Fillers \o <<File("README", "md", NotJson)>>,
     <<ActivityFile>> \o SubSeq(JsonNamedDirs, 1, 4),
     JsonNamedDirs}

\* X/a lies below X
DiscoverDirPaths == {<<"X">>, <<"X", "a">>, <<"Y">>}

InitDiscover ==
    /\ log = <<>>
    /\ kpi_parquet = NoFile
    /\ evidence_jsonl = NoFile
    /\ norm_stats = NoFile
    /\ written = {}
    /\ etl_status = "idle"
    /\ hs_status = "idle"
    /\ hs_read = NoFile
    /\ mm_in = <<>>
    /\ mm_out = <<>>
    /\ pf_in = <<>>
    /\ pf_out = <<>>
    /\ repo_dirs = <<>>
    /\ log_monthly_agg = NoFile
    /\ metrics_out = <<>>
    /\ \E present \in SUBSET DiscoverDirPaths :
       \E holds \in [present -> DiscoverBundles] :
          metrics_root = {Dir(p, holds[p]) : p \in present}

\* repo_dirs = find_repo_dirs(metrics_root)
FindRepoDirs ==
    /\ repo_dirs = <<>>
    /\ repo_dirs' = Ok(find_repo_dirs(metrics_root))
    /\ UNCHANGED <<metrics_root, log, kpi_parquet, evidence_jsonl, norm_stats,
                   written, etl_status, hs_status, hs_read, mm_in, mm_out,
                   pf_in, pf_out, log_monthly_agg, metrics_out>>

NextDiscover == FindRepoDirs

SpecDiscover == InitDiscover /\ [][NextDiscover]_vars

Discovered == repo_dirs # <<>>
ReturnedDirs == {repo_dirs.val[i] : i \in 1..Len(repo_dirs.val)}

\* the files with a .json extension a directory directly contains
JsonFileCount(d) ==
    Cardinality({i \in 1..Len(d.files) :
                    d.files[i].ext = "json" /\ d.files[i].content.t # "dir"})

\* C21: find_repo_dirs returns a directory if and only if it directly
\* contains at least 5 files with a .json extension.
C21_DiscoveryRule ==
    Discovered =>
        \A d \in metrics_root : d \in ReturnedDirs <=> JsonFileCount(d) >= 5

\* p is a proper prefix of q: q lies below p
Below(q, p) == Len(p) < Len(q) /\ SubSeq(q, 1, Len(p)) = p

\* C22: no directory below a returned directory is returned.
C22_NoNestedCandidates ==
    Discovered =>
        \A d, e \in ReturnedDirs : ~Below(e.path, d.path)

-----------------------------------------------------------------------------
(* Logs whose issues and pull requests span months *)

\* issues and pull requests of X created and answered or merged in February,
\* created in January and answered or merged in February, and wholly in
\* January; an issue of Y in January; a push of X in March; an answered issue
\* of X on a row without created_at
SpanLogRows ==
    <<CommentRow("X", 1, T0, T0 + 2 * Hour),
      CommentRow("X", 2, Hour, T0 + Hour),
      CommentRow("X", 3, Hour, 2 * Hour),
      MergedPrRow("X", 4, T0, T0 + Hour),
      MergedPrRow("X", 5, Hour, T0 + Hour),
      MergedPrRow("X", 6, Hour, 3 * Hour),
      CommentRow("Y", 1, Hour, 2 * Hour),
      LogRow("X", Ts(Mar + Hour), "Push", NullStr),
      [CommentRow("X", 7, T0, T0 + Hour) EXCEPT !.created_at = SqlNull]>>

InitSpan ==
    /\ kpi_parquet = NoFile
    /\ evidence_jsonl = NoFile
    /\ norm_stats = NoFile
    /\ written = {}
    /\ etl_status = "idle"
    /\ hs_status = "idle"
    /\ hs_read = NoFile
    /\ mm_in = <<>>
    /\ mm_out = <<>>
    /\ pf_in = <<>>
    /\ pf_out = <<>>
    /\ repo_dirs = <<>>
    /\ log_monthly_agg = NoFile
    /\ metrics_out = <<>>
    /\ metrics_root = {Dir(<<"X">>, Fillers \o <<ActivityFile>>)}
    /\ log \in LogsFrom(SpanLogRows, MaxEvidenceLogRows)

NextSpan == ETLMain

SpecSpan == InitSpan /\ [][NextSpan]_vars

\* the index in ModelMonths of the month a timestamp lies in
MonthIndex(t) ==
    CHOOSE i \in 1..Len(ModelMonths) :
        MonthStarts[i] <= t /\ t < MonthStarts[i + 1]

\* the rows of a repository with a created_at that is a timestamp
DatedRows(repo) ==
    {i \in 1..Len(log) : log[i].repo_name = repo /\ log[i].created_at.k = "ts"}

\* the greatest month of the repository's dated rows
LatestIndex(repo) ==
    CHOOSE m \in {MonthIndex(log[i].created_at.n) : i \in DatedRows(repo)} :
        \A i \in DatedRows(repo) : MonthIndex(log[i].created_at.n) <= m

\* C23: the creation timestamp of every emitted record, of either stream,
\* lies in the latest month of the record's repository.
C23_CreatedInLatestMonth ==
    EvidenceWritten =>
        \A e \in EmittedSet :
            MonthIndex(StartOf(e)) = LatestIndex(e.repo_name)

\* the rows of the log whose created_at falls in the latest month of their
\* repository
LatestRows ==
    SelectSeq(log, LAMBDA l :
        /\ l.repo_name # NullStr
        /\ l.created_at.k = "ts"
        /\ MonthIndex(l.created_at.n) = LatestIndex(l.repo_name))

\* C24: every emitted record carries the greatest month of its repository's
\* rows with a parseable created_at, so the records of one repository, of
\* both streams, carry the same month; and the evidence is what the rows of
\* that month alone give.
C24_LatestMonth ==
    EvidenceWritten =>
        /\ \A e \in EmittedSet :
              e.month = ModelMonths[LatestIndex(e.repo_name)]
        /\ Emitted \in build_evidence_latest_month(LatestRows)

\* an issue and a pull request of X of February are emitted under 2024-02;
\* the issue of X answered in January is not
C24_Witness ==
    /\ EvidenceWritten
    /\ \E i \in 1..Len(log) :
          log[i].repo_name = "X" /\ log[i].issue_id = SqlInt(3)
    /\ \E e \in EmittedSet :
          e.evidence_type = "issue_slow_response" /\ e.month = M02
    /\ \E e \in EmittedSet :
          e.evidence_type = "pr_slow_merge" /\ e.month = M02
    /\ \A e \in EmittedSet : e.issue_id # 3

\* the run wrote log_monthly_agg.parquet
LogViewWritten == etl_status = "ok" /\ log_monthly_agg.exists

\* the (repo_name, month) groups of the log and the rows of each
LogGroups ==
    {<<log[i].repo_name, strftime_Ym(log[i].created_at)>> :
        i \in {j \in 1..Len(log) :
                  log[j].repo_name # NullStr /\ ~IsNull(log[j].created_at)}}
GroupMembers(g) ==
    {i \in 1..Len(log) :
        /\ log[i].repo_name = g[1]
        /\ ~IsNull(log[i].created_at)
        /\ strftime_Ym(log[i].created_at) = g[2]}

RECURSIVE SetSum(_, _)
SetSum(f, S) ==
    IF S = {} THEN 0
    ELSE LET x == CHOOSE x \in S : TRUE IN f[x] + SetSum(f, S \ {x})

NullAsZero(v) == IF v.k = "null" THEN 0 ELSE v.n

\* the reference aggregates of a group
ReferenceAggregates(g) ==
    LET M == GroupMembers(g)
    IN  [kpi_commits_month_log |->
            Num(SetSum([i \in M |-> NullAsZero(log[i].push_distinct_size)],
                       {i \in M : log[i].type = "Push"})),
         kpi_new_issues_month_log |->
            Num(Cardinality({i \in M : log[i].type = "Issues"
                                         /\ log[i].action = "opened"})),
         kpi_new_prs_month_log |->
            Num(Cardinality({i \in M : log[i].type = "PullRequest"
                                         /\ log[i].action = "opened"})),
         kpi_release_count_month_log |->
            Num(Cardinality({i \in M :
                    log[i].type = "Release"
                        /\ log[i].release_published_at.k # "null"})),
         kpi_code_change_lines_month_log |->
            Num(SetSum([i \in M |-> NullAsZero(log[i].pull_additions)
                                      + NullAsZero(log[i].pull_deletions)],
                       {i \in M : log[i].type = "PullRequest"
                                    /\ NullAsZero(log[i].pull_merged) = 1}))]

\* C25: for every (repo_name, month) that has a log row with repo_name and
\* created_at, the log-view table has exactly one row, and its five values
\* are the reference aggregates over the rows of the group.
C25_LogAggregation ==
    LogViewWritten =>
        \A g \in LogGroups :
            \E rs \in {{r \in log_monthly_agg.rows :
                          r.repo_name = g[1] /\ r.month = g[2]}} :
                /\ Cardinality(rs) = 1
                /\ \A r \in rs : r.kv = ReferenceAggregates(g)

\* a push of 3 commits and a merged pull request of 2 added lines, both of X
\* in 2024-01, make one row with 3 commits and 2 changed lines
C25_Witness ==
    /\ LogViewWritten
    /\ Len(log) = 2
    /\ \E r \in log_monthly_agg.rows :
          /\ r.repo_name = "X"
          /\ r.month = M01
          /\ r.kv.kpi_commits_month_log = Num(3)
          /\ r.kv.kpi_code_change_lines_month_log = Num(2)

-----------------------------------------------------------------------------
(* The statistics, the score formula and the frame of a HealthScorer run *)

\* the run completed and wrote health_norm_stats.json
StatsWritten == hs_status = "ok" /\ norm_stats.exists

\* the finite values of a column over all rows of the table written back;
\* none when the table has no such column
FiniteOf(c) ==
    IF c \in kpi_parquet.cols
    THEN {kpi_parquet.rows[i].v[c] :
             i \in {j \in ScoredRows : IsNum(kpi_parquet.rows[j].v[c])}}
    ELSE {}

\* C26: for every metric column a scoring dimension refers to, the exported
\* statistics hold an entry: the minimum and maximum of the column's finite
\* values over all rows, or {min: 0, max: 1} when it has no finite value.
C26_NormStats ==
    StatsWritten =>
        \A c \in all_cols :
            /\ c \in DOMAIN norm_stats.stats
            /\ norm_stats.stats[c] =
                  (IF FiniteOf(c) = {} THEN [min |-> Num(0), max |-> Num(1)]
                   ELSE [min |-> FMinOf(FiniteOf(c)),
                         max |-> FMaxOf(FiniteOf(c))])

\* the normalized value of metric c in row i of the scored table: 0.5 when
\* the column is absent, the value is missing or the range is empty, the
\* position of the value within [min, max] otherwise
Normalized(i, c) ==
    IF c \notin kpi_parquet.cols \/ isna(RowScore(i, c)) THEN Frac(1, 2)
    ELSE LET st == norm_stats.stats[c]
         IN  IF FLe(st.max, st.min) THEN Frac(1, 2)
             ELSE LET y == FDiv(FSub(RowScore(i, c), st.min),
                                 FSub(st.max, st.min))
                  IN  IF FLe(y, Num(0)) THEN Num(0)
                      ELSE IF FLe(Num(1), y) THEN Num(1) ELSE y

\* the mean of the sign-adjusted normalized values of a dimension's metrics
MeanContribution(i, dim) ==
    FDiv(SeqSumF([k \in 1..Len(DIM_DEF[dim]) |->
                    IF DIM_DEF[dim][k][2] = NEG
                    THEN FSub(Num(1), Normalized(i, DIM_DEF[dim][k][1]))
                    ELSE Normalized(i, DIM_DEF[dim][k][1])]),
         Num(Len(DIM_DEF[dim])))

\* 0.25*A + 0.25*R + 0.20*C + 0.10*T + 0.20*S of row i's dimension scores
WeightedSum(i) ==
    FAdd(FMul(Frac(25, 100), RowScore(i, "score_A")),
    FAdd(FMul(Frac(25, 100), RowScore(i, "score_R")),
    FAdd(FMul(Frac(20, 100), RowScore(i, "score_C")),
    FAdd(FMul(Frac(10, 100), RowScore(i, "score_T")),
         FMul(Frac(20, 100), RowScore(i, "score_S"))))))

\* C27: in every row each dimension score is the unweighted mean of its
\* metrics' sign-adjusted normalized contributions, health_H is
\* 0.25*A + 0.25*R + 0.20*C + 0.10*T + 0.20*S, the weights sum to 1, and
\* health_score is 100 * health_H clipped to [0, 100].
C27_ScoreFormula ==
    StatsWritten =>
        /\ SeqSumF([k \in 1..Len(DIMS) |-> DIM_WEIGHTS[DIMS[k]]]) = Num(1)
        /\ \A i \in ScoredRows :
              /\ \A k \in 1..Len(DIMS) :
                    RowScore(i, ScoreCol(DIMS[k])) = MeanContribution(i, DIMS[k])
              /\ RowScore(i, "health_H") = WeightedSum(i)
              /\ \E h \in {FMul(Num(100), RowScore(i, "health_H"))} :
                    RowScore(i, "health_score") =
                        (IF FLe(h, Num(0)) THEN Num(0)
                         ELSE IF FLe(Num(100), h) THEN Num(100) ELSE h)

\* a row with the greatest kpi_activity of the table: score_A is
\* (1 + 3 * 0.5) / 4 = 5/8 and health_score is 53.125
C27_Witness ==
    /\ StatsWritten
    /\ "kpi_activity" \in kpi_parquet.cols
    /\ \E i \in ScoredRows :
          /\ RowScore(i, "kpi_activity") = Num(2)
          /\ RowScore(i, "score_A") = Frac(5, 8)
          /\ RowScore(i, "health_score") = Frac(425, 8)

\* the columns a HealthScorer run is to add
ScoreOutputCols ==
    {ScoreCol(DIMS[k]) : k \in 1..Len(DIMS)} \cup {"health_H", "health_score"}

\* C28: a completed HealthScorer run keeps the rows and their
\* (repo_name, month) keys, leaves the value of every column of the table it
\* read unchanged, and adds the five score_<dim> columns, health_H and
\* health_score and no other column.
C28_Frame ==
    hs_status = "ok" =>
        /\ Len(kpi_parquet.rows) = Len(hs_read.rows)
        /\ \A i \in ScoredRows :
              /\ kpi_parquet.rows[i].repo_name = hs_read.rows[i].repo_name
              /\ kpi_parquet.rows[i].month = hs_read.rows[i].month
              /\ \A c \in hs_read.cols :
                    kpi_parquet.rows[i].v[c] = hs_read.rows[i].v[c]
        /\ kpi_parquet.cols = hs_read.cols \cup ScoreOutputCols

-----------------------------------------------------------------------------
(* The files of one repository bundle, taken in every order. *)

OpenrankFile ==
    SeriesFile("openrank", <<Item(M02, JNum(1)), Item(M03, JNum(2))>>)
StarsFile ==
    SeriesFile("stars", <<Item(M02, JNum(1)), Item(RawKey(M01), JNum(3))>>)
LatencySeriesFile ==
    SeriesFile("issue_resolution_duration", <<Item(M03, JNum(4))>>)
AttentionTextFile ==
    SeriesFile("attention", <<Item(M01, JStr(<<"x">>))>>)

\* the metric files a bundle is drawn from: general metrics, latency in both
\* layouts, stars with a "-raw" key, and a file whose value float() rejects
OrderCandidates ==
    <<ActivityFile, OpenrankFile, ScenarioLatencyFile, LatencySeriesFile,
      StarsFile, AttentionTextFile>>

\* the number of metric files of a bundle; fillers make it a bundle of five
OrderMetricFiles == 3

Perms(n) == {p \in [1..n -> 1..n] : \A i, j \in 1..n : p[i] = p[j] => i = j}

Permuted(files, p) == [i \in 1..Len(files) |-> files[p[i]]]

OrderBundles ==
    {Permuted([i \in 1..OrderMetricFiles |-> OrderCandidates[pick[i]]]
                  \o SubSeq(Fillers, 1, MinJsonFiles - OrderMetricFiles), p) :
        pick \in {f \in [1..OrderMetricFiles -> 1..Len(OrderCandidates)] :
                     \A i \in 1..OrderMetricFiles - 1 : f[i] < f[i + 1]},
        p \in Perms(MinJsonFiles)}

InitOrder ==
    /\ log = <<>>
    /\ kpi_parquet = NoFile
    /\ evidence_jsonl = NoFile
    /\ norm_stats = NoFile
    /\ written = {}
    /\ etl_status = "idle"
    /\ hs_status = "idle"
    /\ hs_read = NoFile
    /\ mm_in = <<>>
    /\ mm_out = <<>>
    /\ pf_in = <<>>
    /\ pf_out = <<>>
    /\ repo_dirs = <<>>
    /\ log_monthly_agg = NoFile
    /\ metrics_out = <<>>
    /\ \E files \in OrderBundles : metrics_root = {Dir(<<"X">>, files)}

\* metrics_out = build_metrics_kpi(metrics_root)
BuildMetricsKpi ==
    /\ metrics_out = <<>>
    /\ metrics_out' = build_metrics_kpi(metrics_root)
    /\ UNCHANGED <<metrics_root, log, kpi_parquet, evidence_jsonl, norm_stats,
                   written, etl_status, hs_status, hs_read, mm_in, mm_out,
                   pf_in, pf_out, repo_dirs, log_monthly_agg>>

NextOrder == BuildMetricsKpi

SpecOrder == InitOrder /\ [][NextOrder]_vars

\* the contents a recognised file is tried with: a series, the avg/quantile
\* layout, and a series with a "-raw" key
OrderContents ==
    {ActivityFile.content, ScenarioLatencyFile.content, StarsFile.content}

\* the output columns parse_metric_file can fill from a file of that name
ColumnsFrom ==
    [name \in DOMAIN METRICS_FILE_MAP |->
        UNION {{e.col : e \in {r.val[i] : i \in 1..Len(r.val)}} :
                 r \in {parse_metric_file(
                            File(SubSeq(name, 1, Len(name) - 5), "json", c)) :
                        c \in OrderContents}}]

\* the directory of the tree, and the tree with its files in another order
TheBundle == CHOOSE d \in metrics_root : TRUE
Reordered(p) == {Dir(TheBundle.path, Permuted(TheBundle.files, p))}

RowSet(df) == {df.rows[i] : i \in 1..Len(df.rows)}

\* C29: the file-name table is injective, no two recognised file names can
\* fill the same output column, and for every order of the files of the
\* directory build_metrics_kpi gives the same columns and the same rows (and
\* raises in every order when it raises in one).
C29_OrderIndependent ==
    /\ \A a, b \in DOMAIN METRICS_FILE_MAP :
          a # b => /\ METRICS_FILE_MAP[a] # METRICS_FILE_MAP[b]
                   /\ ColumnsFrom[a] \cap ColumnsFrom[b] = {}
    /\ metrics_out # <<>> =>
          \A p \in Perms(Len(TheBundle.files)) :
             \E other \in {build_metrics_kpi(Reordered(p))} :
                /\ (other.err = "") = (metrics_out.err = "")
                /\ metrics_out.err = "" =>
                      /\ other.val.cols = metrics_out.val.cols
                      /\ Len(other.val.rows) = Len(metrics_out.val.rows)
                      /\ RowSet(other.val) = RowSet(metrics_out.val)

\* a bundle whose files share a month: activity.json and openrank.json both
\* have 2024-02, and the row of that month holds both values
C29_Witness ==
    /\ metrics_out # <<>>
    /\ metrics_out.err = ""
    /\ \E i, j \in 1..Len(TheBundle.files) :
          /\ i < j
          /\ TheBundle.files[i] = OpenrankFile
          /\ TheBundle.files[j] = ActivityFile
    /\ \E r \in RowSet(metrics_out.val) :
          /\ r.month = M02
          /\ r.v["kpi_activity"] = Num(7)
          /\ r.v["kpi_openrank"] = Num(1)

====
